---- MODULE Spec2Model ----
(***************************************************************************)
(* Multi-agent customer service: the Router's intent classification and    *)
(* scenarios (src/src/agents/router_agent.py), the in-process delegates     *)
(* (customer_data_agent.py, support_agent.py), the shared ConversationLog   *)
(* (base.py), the tool layer over the SQLite store (mcp_server/server.py)   *)
(* and the readiness poll of the A2A client (src/src/a2a/client.py).        *)
(*                                                                         *)
(* A query text is a sequence of phrases; a keyword is "in" the text when   *)
(* it is a substring of one of its lower-cased phrases.  An Optional value  *)
(* is a sequence: <<>> is None, <<v>> is the value v.                       *)
(***************************************************************************)
EXTENDS Integers, Sequences, FiniteSets, TLC

\* ------------------------------------------------------------------ bounds
\* handle calls made on one router in one behaviour of Spec
MaxCalls == 2
\* largest `attempts` argument given to wait_until_ready
MaxAttempts == 3
\* phrases in a classified text
MaxTextLen == 3
\* handle calls made on a store whose tool calls may fail
MaxFaultyCalls == 1

\* ------------------------------------------------------- program constants
\* router_agent.py: c["id"] == 12345
VipId == 12345
\* router_agent.py: list_customers(status="active", limit=50)
ListLimit == 50
\* server.py _validate_limit: limit > 100 is rejected
MaxLimit == 100
\* router_agent.py handle: self._parse_customer_id(query) or 1
DefaultCustomerId == 1

None == <<>>
Some(v) == <<v>>

\* ------------------------------------------------------------------- texts
Phrases ==
  { "cancel my subscription", "billing", "update my email", "history",
    "charged twice", "refund", "REFUND", "high-priority tickets",
    "open tickets", "active customers", "upgrade", "upgrading",
    "Get customer information", "customer information", "hello",
    "ID 5", "id 0", "id 99", "customer 12345",
    "new@email.com", "new@mail.example.com" }

\* str.lower() on one phrase
Lower(p) ==
  CASE p = "REFUND" -> "refund"
    [] p = "Get customer information" -> "get customer information"
    [] p = "ID 5" -> "id 5"
    [] OTHER -> p

\* query.lower()
Normalize(text) == [i \in DOMAIN text |-> Lower(text[i])]

\* the keywords of handle's rules that are substrings of a lower-cased phrase
KeywordsIn(lp) ==
  CASE lp = "cancel my subscription" -> {"cancel my subscription"}
    [] lp = "billing" -> {"billing"}
    [] lp = "update my email" -> {"update my email"}
    [] lp = "history" -> {"history"}
    [] lp = "charged twice" -> {"charged twice"}
    [] lp = "refund" -> {"refund"}
    [] lp = "high-priority tickets" -> {"high-priority tickets"}
    [] lp = "open tickets" -> {"open tickets"}
    [] lp = "active customers" -> {"active customers"}
    [] lp = "upgrade" -> {"upgrade", "upgrad"}
    [] lp = "upgrading" -> {"upgrad"}
    [] lp = "get customer information" ->
         {"get customer information", "customer information"}
    [] lp = "customer information" -> {"customer information"}
    [] OTHER -> {}

\* `kw in normalized`
Has(normalized, kw) == \E i \in DOMAIN normalized : kw \in KeywordsIn(normalized[i])

\* re.search(r"(?:id|customer)\s*(\d+)", phrase): the digits, or None
IdIn(lp) ==
  CASE lp = "id 5" -> Some(5)
    [] lp = "id 0" -> Some(0)
    [] lp = "id 99" -> Some(99)
    [] lp = "customer 12345" -> Some(12345)
    [] OTHER -> None

\* re.search(r"[\w\.\-]+@[\w\-]+\.[\w\-]+", phrase): the match, or None.
\* The pattern takes one label after the first dot of the domain.
EmailIn(p) ==
  CASE p = "new@email.com" -> Some("new@email.com")
    [] p = "new@mail.example.com" -> Some("new@mail.example")
    [] OTHER -> None

\* the least element of a set of indexes, or 0: where re.search matches first
FirstOf(S) == IF S = {} THEN 0 ELSE CHOOSE i \in S : \A j \in S : i <= j

_parse_customer_id(query) ==
  LET n == Normalize(query)
      k == FirstOf({i \in DOMAIN n : IdIn(n[i]) # None})
  IN IF k = 0 THEN None ELSE IdIn(n[k])

_parse_email(query) ==
  LET k == FirstOf({i \in DOMAIN query : EmailIn(query[i]) # None})
  IN IF k = 0 THEN None ELSE EmailIn(query[k])

\* `x or 1` for an Optional int: None and 0 are falsy
OrDefault(x) == IF x = None \/ x[1] = 0 THEN DefaultCustomerId ELSE x[1]

\* the if/elif chain of RouterAgent.handle, with the rules in another order
ClassifyRefundFirst(query) ==
  LET n == Normalize(query) IN
  IF Has(n, "cancel my subscription") /\ Has(n, "billing") THEN "cancel"
  ELSE IF Has(n, "charged twice") \/ Has(n, "refund") THEN "escalation"
  ELSE IF Has(n, "update my email") /\ Has(n, "history") THEN "multi"
  ELSE IF Has(n, "high-priority tickets") THEN "hp_report"
  ELSE IF Has(n, "open tickets") /\ Has(n, "active customers") THEN "active_open"
  ELSE IF Has(n, "upgrade") \/ Has(n, "upgrad") THEN "upgrade"
  ELSE IF Has(n, "get customer information") \/ Has(n, "customer information")
       THEN "lookup"
  ELSE "fallback"

\* the if/elif chain of RouterAgent.handle, with the cancel rule tested last
ClassifyCancelLast(query) ==
  LET n == Normalize(query) IN
  IF Has(n, "update my email") /\ Has(n, "history") THEN "multi"
  ELSE IF Has(n, "charged twice") \/ Has(n, "refund") THEN "escalation"
  ELSE IF Has(n, "high-priority tickets") THEN "hp_report"
  ELSE IF Has(n, "open tickets") /\ Has(n, "active customers") THEN "active_open"
  ELSE IF Has(n, "upgrade") \/ Has(n, "upgrad") THEN "upgrade"
  ELSE IF Has(n, "get customer information") \/ Has(n, "customer information")
       THEN "lookup"
  ELSE IF Has(n, "cancel my subscription") /\ Has(n, "billing") THEN "cancel"
  ELSE "fallback"

\* the if/elif chain of RouterAgent.handle: the scenario a query runs
Classify(query) ==
  LET n == Normalize(query) IN
  IF Has(n, "cancel my subscription") /\ Has(n, "billing") THEN "cancel"
  ELSE IF Has(n, "update my email") /\ Has(n, "history") THEN "multi"
  ELSE IF Has(n, "charged twice") \/ Has(n, "refund") THEN "escalation"
  ELSE IF Has(n, "high-priority tickets") THEN "hp_report"
  ELSE IF Has(n, "open tickets") /\ Has(n, "active customers") THEN "active_open"
  ELSE IF Has(n, "upgrade") \/ Has(n, "upgrad") THEN "upgrade"
  ELSE IF Has(n, "get customer information") \/ Has(n, "customer information")
       THEN "lookup"
  ELSE "fallback"

Intents ==
  {"cancel", "multi", "escalation", "hp_report", "active_open", "upgrade",
   "lookup", "fallback"}

\* ---------------------------------------------------------------- the store
\* A store is [customers: id -> row, tickets: sequence of rows, now: clock].
\* A customer row keeps the columns the agents read (id, name, email, status);
\* a ticket's id is its rowid, its created_at the clock at insertion.
ALLOWED_CUSTOMER_FIELDS == {"name", "email", "phone", "status"}
ALLOWED_CUSTOMER_STATUS == {"active", "disabled"}
ALLOWED_TICKET_PRIORITY == {"low", "medium", "high"}

Customer(id, name, email, status) ==
  [id |-> id, name |-> name, email |-> email, status |-> status]

Ticket(id, cid, issue, status, priority, at) ==
  [id |-> id, customer_id |-> cid, issue |-> issue, status |-> status,
   priority |-> priority, created_at |-> at]

\* DatabaseSetup.initialize on an empty file: three customers, no ticket
SeededCustomers ==
  (1 :> Customer(1, "Ana Customer", "ana@example.com", "active")) @@
  (2 :> Customer(2, "Brian Blocked", "brian@example.com", "delinquent")) @@
  (3 :> Customer(3, "Cara Care", "cara@example.com", "vip"))

\* ensure_required_records: customers 5 and 12345
RequiredCustomers ==
  SeededCustomers @@
  (5 :> Customer(5, "Customer Five", "customer5@example.com", "active")) @@
  (VipId :> Customer(VipId, "Customer 12345", "customer12345@example.com", "active"))

SeededStore == [customers |-> SeededCustomers, tickets |-> <<>>, now |-> 1]

\* after ensure_required_records (ticket 1), then two tickets created through the
\* create_ticket tool
RequiredStore ==
  [customers |-> RequiredCustomers,
   tickets |-> << Ticket(1, VipId, "Seeded high-priority ticket", "open", "high", 1),
                  Ticket(2, 1, "Login issue", "open", "medium", 2),
                  Ticket(3, VipId, "Invoice copy", "open", "low", 3) >>,
   now |-> 4]

\* a support.db written by another tool: customer 12345 has no high-priority
\* ticket, a customer outside the premium selection has one, one ticket is resolved
ImportedStore ==
  [customers |-> RequiredCustomers,
   tickets |-> << Ticket(1, VipId, "Password reset", "resolved", "medium", 1),
                  Ticket(2, 1, "Outage", "open", "high", 2) >>,
   now |-> 3]

InitialStores == {SeededStore, RequiredStore, ImportedStore}

\* ascending sequence of a finite set of integers
RECURSIVE Ascending(_)
Ascending(S) ==
  IF S = {} THEN <<>>
  ELSE LET m == CHOOSE x \in S : \A y \in S : x <= y
       IN <<m>> \o Ascending(S \ {m})

\* the first n elements of a sequence (SQL LIMIT)
Take(s, n) == IF Len(s) <= n THEN s ELSE SubSeq(s, 1, n)

\* the indexes of `rows` in I, by created_at descending (ties: rowid ascending)
RECURSIVE NewestFirst(_, _)
NewestFirst(rows, I) ==
  IF I = {} THEN <<>>
  ELSE LET m == CHOOSE i \in I : \A j \in I :
                  \/ rows[i].created_at > rows[j].created_at
                  \/ rows[i].created_at = rows[j].created_at /\ i <= j
       IN <<rows[m]>> \o NewestFirst(rows, I \ {m})

\* a tool function either returns a value or raises ValueError(exc)
Return(v) == [raised |-> FALSE, value |-> Some(v), exc |-> None]
Raise(msg, arg) == [raised |-> TRUE, value |-> None, exc |-> Some([msg |-> msg, arg |-> arg])]

\* None when the argument is valid, else the raised error
_validate_customer_id(customer_id) ==
  IF customer_id <= 0 THEN Some("customer_id must be a positive integer") ELSE None

_validate_status(status) ==
  IF status = None THEN None
  ELSE IF status[1] \notin ALLOWED_CUSTOMER_STATUS
       THEN Some("status must be one of ['active', 'disabled']")
  ELSE None

_validate_priority(priority) ==
  IF priority \notin ALLOWED_TICKET_PRIORITY
  THEN Some("priority must be one of ['high', 'low', 'medium']") ELSE None

_validate_limit(limit) ==
  IF limit <= 0 THEN Some("limit must be a positive integer")
  ELSE IF limit > MaxLimit THEN Some("limit too high; must be <= 100")
  ELSE None

get_customer(db, customer_id) ==
  IF _validate_customer_id(customer_id) # None
  THEN Raise(_validate_customer_id(customer_id)[1], customer_id)
  ELSE IF customer_id \notin DOMAIN db.customers
  THEN Raise("Customer not found", customer_id)
  ELSE Return(db.customers[customer_id])

\* list_customers without its status filter
list_customers_unfiltered(db, status, limit) ==
  IF _validate_status(status) # None THEN Raise(_validate_status(status)[1], 0)
  ELSE IF _validate_limit(limit) # None THEN Raise(_validate_limit(limit)[1], limit)
  ELSE LET rows == Ascending(DOMAIN db.customers)
       IN Return([k \in DOMAIN Take(rows, limit) |-> db.customers[rows[k]]])

\* status is Optional: None lists every customer
list_customers(db, status, limit) ==
  IF _validate_status(status) # None THEN Raise(_validate_status(status)[1], 0)
  ELSE IF _validate_limit(limit) # None THEN Raise(_validate_limit(limit)[1], limit)
  ELSE LET ids == {i \in DOMAIN db.customers :
                     status = None \/ db.customers[i].status = status[1]}
           rows == Ascending(ids)
       IN Return([k \in DOMAIN Take(rows, limit) |-> db.customers[rows[k]]])

\* update_customer up to conn.commit(): the new store, and the error raised if any
update_customer_write(db, customer_id, data) ==
  LET updates == {k \in DOMAIN data : k \in ALLOWED_CUSTOMER_FIELDS}
      bad == IF _validate_customer_id(customer_id) # None
               THEN Some([msg |-> _validate_customer_id(customer_id)[1], arg |-> customer_id])
             ELSE IF updates = {}
               THEN Some([msg |-> "No valid fields to update", arg |-> customer_id])
             ELSE IF "status" \in updates /\ _validate_status(Some(data["status"])) # None
               THEN Some([msg |-> _validate_status(Some(data["status"]))[1], arg |-> customer_id])
             ELSE IF customer_id \notin DOMAIN db.customers
               THEN Some([msg |-> "Customer not found", arg |-> customer_id])
             ELSE None
  IN IF bad # None THEN [db |-> db, exc |-> bad]
     ELSE [db |-> [db EXCEPT !.customers[customer_id] =
                     [f \in DOMAIN @ |-> IF f \in updates THEN data[f] ELSE @[f]]],
           exc |-> None]

\* update_customer's last line: return get_customer(customer_id)
update_customer_read(db, customer_id, exc) ==
  IF exc # None THEN [raised |-> TRUE, value |-> None, exc |-> exc]
  ELSE get_customer(db, customer_id)

\* create_ticket: the new store and what the call returns
create_ticket(db, customer_id, issue, priority) ==
  LET bad == IF _validate_customer_id(customer_id) # None
               THEN Some(_validate_customer_id(customer_id)[1])
             ELSE IF issue = "" THEN Some("issue is required")
             ELSE IF _validate_priority(priority) # None
               THEN Some(_validate_priority(priority)[1])
             ELSE IF customer_id \notin DOMAIN db.customers
               THEN Some("Customer not found")
             ELSE None
      row == Ticket(Len(db.tickets) + 1, customer_id, issue, "open", priority, db.now)
  IN IF bad # None THEN [db |-> db, ret |-> Raise(bad[1], customer_id)]
     ELSE [db |-> [db EXCEPT !.tickets = Append(@, row), !.now = @ + 1],
           ret |-> Return(row)]

get_customer_history(db, customer_id) ==
  IF _validate_customer_id(customer_id) # None
  THEN Raise(_validate_customer_id(customer_id)[1], customer_id)
  ELSE Return(NewestFirst(db.tickets,
                {i \in DOMAIN db.tickets : db.tickets[i].customer_id = customer_id}))

\* MCPServer.<tool>: try: ToolResult(call, result=...) except: ToolResult(call, None, str(exc))
ToolResult(r) ==
  IF r.raised THEN [result |-> None, error |-> r.exc]
  ELSE [result |-> r.value, error |-> None]

\* Python truthiness of ToolResult.result: a row is truthy, a list when non-empty
TruthyRow(result) == result # None
TruthyList(result) == result # None /\ Len(result[1]) > 0
\* `result or []`
OrEmpty(result) == IF TruthyList(result) THEN result[1] ELSE <<>>

\* ------------------------------------------------------------------- state
Clients == {1, 2}

VARIABLES
  db,      \* the SQLite store behind the tool layer
  remote,  \* FALSE: in-process delegates; TRUE: the router service's proxies
  events,  \* ConversationLog.events of the router's log
  req,     \* one handle call per client: its position and local variables
  calls,   \* handle calls started so far
  wr,      \* the wait_until_ready call
  cls,     \* a text and the scenario handle chose for it
  rpc      \* a send_message call: the request, the response, the outcome

vars == <<db, remote, events, req, calls, wr, cls, rpc>>

\* ------------------------------------------------------------ the trace log
\* A2AEvent(sender, receiver, action, args)
A2AEvent(sender, receiver, action, args) ==
  [sender |-> sender, receiver |-> receiver, action |-> action, args |-> args]

\* A2AEvent.format
Format(e) == [from |-> e.sender, to |-> e.receiver, action |-> e.action, args |-> e.args]

\* ConversationLog.clear, leaving the events in place
ClearKeeps(evs) == evs

\* ConversationLog.clear
Clear(evs) == <<>>

\* a log that ConversationLog.record puts the new events in front of
RecordInFront(evs, new, tag) ==
  [i \in DOMAIN new |-> [ev |-> new[i], by |-> tag]] \o evs

\* ConversationLog.record of each event of `new` in turn; `tag` is the number of
\* the handle call that records (bookkeeping, not part of the event)
Record(evs, new, tag) ==
  evs \o [i \in DOMAIN new |-> [ev |-> new[i], by |-> tag]]

\* ConversationLog.dump
Dump(evs) == [i \in DOMAIN evs |-> Format(evs[i].ev)]

\* ----------------------------------------------------------- data delegate
\* Each CustomerDataAgent method records one event and then awaits the tool
\* call in a worker thread: the event, and the call left outstanding.
NoCall == [op |-> "none", args |-> <<>>, sender |-> ""]

Data_fetch_customer(customer_id, sender) ==
  [event |-> A2AEvent(sender, "CustomerData", "get_customer", [customer_id |-> customer_id]),
   call |-> [op |-> "get_customer", args |-> [customer_id |-> customer_id], sender |-> sender]]

Data_list_customers(status, limit, sender) ==
  [event |-> A2AEvent(sender, "CustomerData", "list_customers",
                      [status |-> status, limit |-> limit]),
   call |-> [op |-> "list_customers", args |-> [status |-> status, limit |-> limit],
             sender |-> sender]]

Data_update_customer(customer_id, data, sender) ==
  [event |-> A2AEvent(sender, "CustomerData", "update_customer",
                      [customer_id |-> customer_id, data |-> data]),
   call |-> [op |-> "update_customer", args |-> [customer_id |-> customer_id, data |-> data],
             sender |-> sender]]

Data_create_ticket(customer_id, issue, priority, sender) ==
  [event |-> A2AEvent(sender, "CustomerData", "create_ticket",
                      [customer_id |-> customer_id, issue |-> issue, priority |-> priority]),
   call |-> [op |-> "create_ticket",
             args |-> [customer_id |-> customer_id, issue |-> issue, priority |-> priority],
             sender |-> sender]]

Data_history(customer_id, sender) ==
  [event |-> A2AEvent(sender, "CustomerData", "get_customer_history",
                      [customer_id |-> customer_id]),
   call |-> [op |-> "get_customer_history", args |-> [customer_id |-> customer_id],
             sender |-> sender]]

\* a delegate that records each of its events twice
DelegTwice(evs) == IF remote THEN <<>> ELSE evs \o evs

\* the events a delegate appends to the router's log: the in-process agents hold
\* the router's log; behind the router service's proxies the agents run in the
\* data and support services and hold those services' logs
Deleg(evs) == IF remote THEN <<>> ELSE evs

\* SupportProxy: a support call without a data call is still one RPC round trip
Hop == [op |-> "hop", args |-> <<>>, sender |-> "Router"]

\* -------------------------------------------------------- support delegate
\* SupportAgent.handle_support's reply string:
\* f"{prefix}Support response for {label}: {issue}.{context_note}"
SupportReply(customer, issue, urgent, context_note) ==
  [prefix |-> IF urgent THEN "URGENT: " ELSE "",
   label |-> IF customer # None
               THEN Some([name |-> customer[1].name, id |-> customer[1].id])
               ELSE None,
   issue |-> issue,
   context_note |-> context_note]

NoContext == [note |-> "", history |-> <<>>]

\* context_note after the history fetch of handle_support
ContextNote(history) ==
  IF TruthyList(history.result) THEN [note |-> " Context: ", history |-> history.result[1]]
  ELSE [note |-> " No prior tickets.", history |-> <<>>]

\* handle_support's test without the test of needs_context
WantsContextOfCustomer(customer, needs_context) == customer # None

\* handle_support's test without the test of the customer
WantsContextAlways(customer, needs_context) == needs_context

\* whether handle_support asks the Data Delegate for context
WantsContext(customer, needs_context) == needs_context /\ customer # None

\* summarize_history without the test for an empty history
SummaryOfAny(history) ==
  IF history.error # None
  THEN [text |-> "No ticket history yet.", items |-> <<>>]
  ELSE [text |-> "",
        items |-> [i \in DOMAIN OrEmpty(history.result) |->
                     [created_at |-> OrEmpty(history.result)[i].created_at,
                      issue |-> OrEmpty(history.result)[i].issue,
                      status |-> OrEmpty(history.result)[i].status,
                      priority |-> OrEmpty(history.result)[i].priority]]]

\* SupportAgent.summarize_history's result for the fetched history
Summary(history) ==
  IF history.error # None \/ ~TruthyList(history.result)
  THEN [text |-> "No ticket history yet.", items |-> <<>>]
  ELSE [text |-> "",
        items |-> [i \in DOMAIN history.result[1] |->
                     [created_at |-> history.result[1][i].created_at,
                      issue |-> history.result[1][i].issue,
                      status |-> history.result[1][i].status,
                      priority |-> history.result[1][i].priority]]]

\* ----------------------------------------------------------------- requests
IdleReq ==
  [pc |-> "idle", query |-> <<>>, intent |-> "", customer_id |-> 0,
   new_email |-> None, call |-> NoCall, callState |-> "none", ret |-> None,
   info |-> None, ticket |-> None, rows |-> <<>>, idx |-> 0, acc |-> <<>>,
   upd |-> "none", updExc |-> None, updRet |-> None,
   hist |-> "none", histRet |-> None, email_val |-> "", reply |-> None,
   response |-> None, log |-> <<>>, exc |-> None,
   \* bookkeeping for the properties
   callNo |-> 0, own |-> <<>>, logTags |-> <<>>, db0 |-> SeededStore,
   firstDone |-> "", cleared |-> FALSE, trail |-> <<>>, params |-> <<>>]

InFlight(c) == req[c].pc \notin {"idle", "done", "raised"}

\* the delegate calls of a request in the order they were issued, each with its
\* outcome once it has returned (bookkeeping)
Issued(trail, call) ==
  IF call.op = "hop" THEN trail ELSE Append(trail, [call |-> call, out |-> "pending"])

Outcome(ret) == IF ret.error # None THEN "error" ELSE "ok"

\* the latest outstanding call `call` of the trail has returned `ret`
Settle(trail, call, ret) ==
  LET I == {i \in DOMAIN trail : trail[i].call = call /\ trail[i].out = "pending"}
  IN IF I = {} THEN trail
     ELSE LET m == CHOOSE i \in I : \A j \in I : j <= i
          IN [trail EXCEPT ![m].out = Outcome(ret)]

\* a block of handle suspends on a delegate call
Issue(q, pc, call) ==
  [q EXCEPT !.pc = pc, !.call = call, !.callState = "pending", !.ret = None,
            !.trail = Issued(@, call)]

\* a block that records `new` and leaves the request as q
Commit(r, base, q, new) ==
  /\ events' = Record(base, new, q.callNo)
  /\ req' = [req EXCEPT ![r] = [q EXCEPT !.own = Record(@, new, q.callNo)]]

\* handle's return: {"response": response, "log": self.log.dump()}
Finish(r, q, new, response) ==
  LET all == Record(events, new, q.callNo) IN
  /\ events' = all
  /\ req' = [req EXCEPT ![r] =
       [q EXCEPT !.pc = "done", !.call = NoCall, !.callState = "none",
                 !.response = Some(response), !.log = Dump(all),
                 !.logTags = [i \in DOMAIN all |-> all[i].by],
                 !.own = Record(@, new, q.callNo)]]

\* an exception leaves the scenario and handle: nothing is returned
Fail(q, exc) ==
  [q EXCEPT !.pc = "raised", !.call = NoCall, !.callState = "none", !.exc = Some(exc)]

Throw(r, q, exc) ==
  /\ events' = events
  /\ req' = [req EXCEPT ![r] = Fail(q, exc)]

\* a support call that needs no data: answered inline by the in-process
\* SupportAgent, one round trip through SupportProxy
ReplyOrHop(r, q, new, response) ==
  IF remote
  THEN Commit(r, events, Issue([q EXCEPT !.reply = Some(response)], "support", Hop), new)
  ELSE Finish(r, q, new, response)

\* SupportAgent.handle_support(customer, issue, urgent, needs_context) called by
\* a block that recorded `new` and will return `response`, whose reply is the
\* reply without a context note: `if needs_context and customer` records
\* request_context and awaits the history; otherwise the reply is ready
handle_support(r, q, new, customer, needs_context, response) ==
  IF WantsContext(customer, needs_context)
  THEN IF customer = None
       THEN Throw(r, q, "TypeError")  \* customer["id"] with customer None
       ELSE LET d == Data_history(customer[1].id, "Support") IN
            Commit(r, events, Issue([q EXCEPT !.reply = Some(response)], "esc.ctx", d.call),
                   new \o Deleg(<<A2AEvent("Support", "CustomerData", "request_context",
                                           [customer_id |-> customer[1].id]),
                                  d.event>>))
  ELSE ReplyOrHop(r, q, new, response)

\* --------------------------------------------------------------- scenarios
\* RouterAgent._log_step
_log_step(receiver, action, args) == A2AEvent("Router", receiver, action, args)

NotFound == [kind |-> "Customer not found."]
NoOpenTickets == [kind |-> "No open tickets for active customers."]
NoHighPriority == [kind |-> "No high-priority tickets found."]

\* Each scenario's first block, up to its first suspension: the request as it
\* is left, and the events recorded.
_get_customer(q) ==
  LET d == Data_fetch_customer(q.customer_id, "Router") IN
  [q |-> Issue(q, "lookup.fetch", d.call),
   new |-> <<_log_step("CustomerData", "scenario1.route_to_data",
                       [customer_id |-> q.customer_id])>> \o Deleg(<<d.event>>)]

_upgrade(q) ==
  LET d == Data_fetch_customer(q.customer_id, "Router") IN
  [q |-> Issue(q, "upgrade.fetch", d.call), new |-> Deleg(<<d.event>>)]

_fallback(q) ==
  LET d == Data_fetch_customer(q.customer_id, "Router") IN
  [q |-> Issue(q, "fallback.fetch", d.call), new |-> Deleg(<<d.event>>)]

_active_with_open_tickets(q) ==
  LET d == Data_list_customers(Some("active"), ListLimit, "Router") IN
  [q |-> Issue(q, "active.list", d.call), new |-> Deleg(<<d.event>>)]

_escalation(q) ==
  LET d == Data_fetch_customer(q.customer_id, "Router") IN
  [q |-> Issue(q, "esc.fetch", d.call), new |-> Deleg(<<d.event>>)]

\* the log steps and create_task calls; the tasks start once handle suspends
_multi_intent_update_email(q) ==
  [q |-> [q EXCEPT !.pc = "multi.gather",
                   !.upd = IF q.new_email # None THEN "created" ELSE "none",
                   !.hist = "created"],
   new |-> (IF q.new_email # None
              THEN <<_log_step("CustomerData", "scenario5.update_customer",
                               [customer_id |-> q.customer_id,
                                data |-> [email |-> q.new_email[1]]])>>
              ELSE <<>>)
           \o <<_log_step("CustomerData", "scenario5.history", [customer_id |-> q.customer_id]),
                _log_step("Support", "scenario5.summarize_history",
                          [customer_id |-> q.customer_id])>>]

_high_priority_report(q) ==
  LET d == Data_list_customers(Some("active"), ListLimit, "Router") IN
  [q |-> Issue(q, "hp.list", d.call),
   new |-> <<_log_step("CustomerData", "scenario3.list_customers",
                       [status |-> "active", limit |-> ListLimit])>> \o Deleg(<<d.event>>)]

_cancel_with_billing_issue(q) ==
  LET d == Data_history(q.customer_id, "Router") IN
  [q |-> Issue(q, "cancel.hist", d.call),
   new |-> <<_log_step("Support", "scenario2.can_you_handle",
                       [issue |-> "Cancel subscription with billing issues"]),
             A2AEvent("Support", "Router", "scenario2.need_context",
                      [context |-> "billing history"])>> \o Deleg(<<d.event>>)]

\* the scenario handle awaits for the classified intent
Scenario(q) ==
  CASE q.intent = "cancel" -> _cancel_with_billing_issue(q)
    [] q.intent = "multi" -> _multi_intent_update_email(q)
    [] q.intent = "escalation" -> _escalation(q)
    [] q.intent = "hp_report" -> _high_priority_report(q)
    [] q.intent = "active_open" -> _active_with_open_tickets(q)
    [] q.intent = "upgrade" -> _upgrade(q)
    [] q.intent = "lookup" -> _get_customer(q)
    [] q.intent = "fallback" -> _fallback(q)

\* RouterAgent.handle from its first line to its first suspension
handle(r, query) ==
  LET intent == Classify(query)
      q == [IdleReq EXCEPT
              !.query = query, !.intent = intent,
              !.customer_id = OrDefault(_parse_customer_id(query)),
              !.new_email = IF intent = "multi" THEN _parse_email(query) ELSE None,
              !.callNo = calls + 1, !.db0 = db]
      b == Scenario(q)
      cleared == Clear(events)
  IN /\ events' = Record(cleared, b.new, q.callNo)
     /\ req' = [c \in Clients |->
          IF c = r THEN [b.q EXCEPT !.own = Record(<<>>, b.new, q.callNo)]
          ELSE IF InFlight(c) /\ req[c].own # <<>>
               THEN [req[c] EXCEPT !.cleared = TRUE]
          ELSE req[c]]
     /\ calls' = calls + 1
     /\ UNCHANGED <<db, remote, wr, cls, rpc>>

\* the queries the clients send
Queries ==
  { <<"Get customer information", "ID 5">>,
    <<"customer information", "id 99">>,
    <<"cancel my subscription", "billing">>,
    <<"refund", "cancel my subscription", "billing", "id 5">>,
    <<"active customers", "open tickets">>,
    <<"charged twice", "refund">>,
    <<"update my email", "new@email.com", "history">>,
    <<"update my email", "history", "id 99", "new@email.com">>,
    <<"update my email", "history">>,
    <<"high-priority tickets">>,
    <<"upgrade", "customer 12345">>,
    <<"hello">>,
    <<"REFUND", "id 99">>,
    <<"refund", "customer 12345">> }

\* the queries two clients send at the same time: one for each scenario
ConcurrentQueries ==
  { <<"Get customer information", "ID 5">>,
    <<"cancel my subscription", "billing">>,
    <<"active customers", "open tickets">>,
    <<"update my email", "new@email.com", "history">>,
    <<"high-priority tickets">>,
    <<"upgrade", "customer 12345">>,
    <<"hello">>,
    <<"refund", "customer 12345">> }

\* one caller at a time: a handle call starts when no other is in flight
HandleSerial(r) ==
  /\ req[r].pc \in {"idle", "done", "raised"}
  /\ \A c \in Clients : ~InFlight(c)
  /\ calls < MaxCalls
  /\ \E query \in Queries : handle(r, query)

\* the router service: rpc_endpoint awaits router_agent.handle for each request,
\* whatever the other requests are doing (clients are numbered as they arrive)
HandleConcurrent(r) ==
  /\ req[r].pc = "idle"
  /\ \A c \in Clients : c < r => req[c].pc # "idle"
  /\ \E query \in ConcurrentQueries : handle(r, query)

\* ------------------------------------------------------------- the transport
\* A member of a JSON object is [t |-> "absent"], [t |-> "null"] or
\* [t |-> "object", v |-> value]; an optional value is <<>> or <<value>>.
\* A handler's outcome is the store it leaves and the payload it returned or
\* the exception it raised: [db, raised, exc, payload].

\* high_priority_tickets' filter, without the test of the priority
HighOfAll(result) == IF TruthyList(result) THEN result[1] ELSE <<>>

\* high_priority_tickets: `if history.result: tickets.extend(t ... priority == "high")`
HighOf(result) ==
  IF TruthyList(result) THEN SelectSeq(result[1], LAMBDA t : t.priority = "high")
  ELSE <<>>

\* MCPServer.<op>: the store after the tool call and the ToolResult
RunTool(store, op, args) ==
  CASE op = "get_customer" ->
         [db |-> store, ret |-> ToolResult(get_customer(store, args.customer_id))]
    [] op = "list_customers" ->
         [db |-> store, ret |-> ToolResult(list_customers(store, args.status, args.limit))]
    [] op = "update_customer" ->
         LET w == update_customer_write(store, args.customer_id, args.data)
         IN [db |-> w.db,
             ret |-> ToolResult(update_customer_read(w.db, args.customer_id, w.exc))]
    [] op = "create_ticket" ->
         LET x == create_ticket(store, args.customer_id, args.issue, args.priority)
         IN [db |-> x.db, ret |-> ToolResult(x.ret)]
    [] op = "get_customer_history" ->
         [db |-> store, ret |-> ToolResult(get_customer_history(store, args.customer_id))]

\* the command message the proxy would send if it used the tools' names
DataCommandByToolName(call) ==
  [command |-> call.op, args |-> call.args @@ [sender |-> call.sender]]

\* CustomerDataProxy.<op>: the command message
\* {"command": ..., "args": {..., "sender": sender}}
DataCommand(call) ==
  [command |-> CASE call.op = "get_customer" -> "fetch_customer"
                 [] call.op = "get_customer_history" -> "history"
                 [] OTHER -> call.op,
   args |-> call.args @@ [sender |-> call.sender]]

\* send_message's payload: {"jsonrpc": "2.0", "id": ..., "method": "message/send",
\* "params": {"message": message}}
Request(message) ==
  [id |-> [t |-> "object", v |-> "uuid4"], method |-> "message/send",
   params |-> [t |-> "object", v |-> [message |-> message]]]

\* _serialize_tool_result
_serialize_tool_result(result) == [result |-> result.result, error |-> result.error]

\* CustomerDataAgent.high_priority_tickets over a store: the high-priority
\* tickets of each id's history, in the order of the ids
RECURSIVE HighTickets(_, _)
HighTickets(store, ids) ==
  IF ids = <<>> THEN <<>>
  ELSE HighOf(ToolResult(get_customer_history(store, ids[1])).result)
       \o HighTickets(store, SubSeq(ids, 2, Len(ids)))

\* _handle_command with the history command dispatched to fetch_customer
DataToolHistoryAsFetch(command) ==
  CASE command \in {"fetch_customer", "history"} -> "get_customer"
    [] command \in {"list_customers", "update_customer", "create_ticket"} -> command
    [] OTHER -> "none"

\* the tool behind a command of the data service's _handle_command
DataTool(command) ==
  CASE command = "fetch_customer" -> "get_customer"
    [] command = "history" -> "get_customer_history"
    [] command \in {"list_customers", "update_customer", "create_ticket"} -> command
    [] OTHER -> "none"

\* the data service's _handle_command(command, args): the store it leaves, the
\* payload or the ValueError, and the events its CustomerDataAgent recorded
DataHandleCommand(store, command, args) ==
  IF command = "high_priority_tickets"
  THEN [db |-> store, raised |-> FALSE, exc |-> "",
        payload |-> [result |-> Some(HighTickets(store, args.customer_ids)),
                     error |-> None],
        recorded |-> [i \in DOMAIN args.customer_ids |->
                        Data_history(args.customer_ids[i], "Router").event]]
  ELSE IF DataTool(command) = "none"
  THEN [db |-> store, raised |-> TRUE, exc |-> "Unknown command: " \o command,
        payload |-> [result |-> None, error |-> None], recorded |-> <<>>]
  ELSE LET x == RunTool(store, DataTool(command), args)
       IN [db |-> x.db, raised |-> FALSE, exc |-> "",
           payload |-> _serialize_tool_result(x.ret),
           recorded |-> <<A2AEvent(args.sender, "CustomerData", DataTool(command),
                                   [k \in DOMAIN args \ {"sender"} |-> args[k]])>>]

\* the support service's _handle_command(command, args): SupportAgent's
\* operations over the service's in-process CustomerDataAgent
SupportHandleCommand(store, command, args) ==
  CASE command = "handle_support" ->
         LET context_note ==
               IF WantsContext(args.customer, args.needs_context)
               THEN ContextNote(ToolResult(get_customer_history(store, args.customer[1].id)))
               ELSE NoContext
         IN [db |-> store, raised |-> FALSE, exc |-> "",
             payload |-> [result |-> Some(SupportReply(args.customer, args.issue,
                                                       args.urgent, context_note)),
                          error |-> None],
             recorded |-> IF WantsContext(args.customer, args.needs_context)
                          THEN <<A2AEvent("Support", "CustomerData", "request_context",
                                          [customer_id |-> args.customer[1].id]),
                                 Data_history(args.customer[1].id, "Support").event>>
                          ELSE <<>>]
    [] command = "ensure_ticket" ->
         LET x == RunTool(store, "create_ticket", args)
         IN [db |-> x.db, raised |-> FALSE, exc |-> "",
             payload |-> [result |-> x.ret.result, error |-> None],
             recorded |-> <<Data_create_ticket(args.customer_id, args.issue, args.priority,
                                               "Support").event>>]
    [] command = "summarize_history" ->
         [db |-> store, raised |-> FALSE, exc |-> "",
          payload |-> [result |-> Some(Summary(ToolResult(
                                    get_customer_history(store, args.customer_id)))),
                       error |-> None],
          recorded |-> <<Data_history(args.customer_id, "Support").event>>]
    [] OTHER ->
         [db |-> store, raised |-> TRUE, exc |-> "Unknown command: " \o command,
          payload |-> [result |-> None, error |-> None], recorded |-> <<>>]

\* the JSON-RPC responses of a service's rpc_endpoint: HTTP status and body
UnsupportedMethod(req_id) ==
  [status |-> 400,
   body |-> [id |-> req_id, result |-> [t |-> "absent"],
             error |-> [t |-> "object",
                        v |-> [code |-> -32601, message |-> "Unsupported method"]]]]

InternalError(req_id, exc) ==
  [status |-> 500,
   body |-> [id |-> req_id, result |-> [t |-> "absent"],
             error |-> [t |-> "object", v |-> [code |-> -32000, message |-> exc]]]]

Success(req_id, payload) ==
  [status |-> 200,
   body |-> [id |-> req_id, result |-> [t |-> "object", v |-> [message |-> payload]],
             error |-> [t |-> "absent"]]]

\* rpc_endpoint of the data service with its _handle_message: the store and the
\* service's log after the request, and the response.  req_id is
\* request.get("id"); request.get("params", {}).get("message") is evaluated
\* before the try block, so params that are no object raise AttributeError out
\* of the endpoint and the framework answers 500 with a body that is no
\* JSON-RPC object.  A message is a dict or free text ([text |-> ...]);
\* _handle_message clears the log first.
data_rpc_endpoint(store, log, request) ==
  LET req_id == IF request.id.t = "absent" THEN [t |-> "null"] ELSE request.id IN
  IF request.method # "message/send"
  THEN [db |-> store, log |-> log, response |-> UnsupportedMethod(req_id)]
  ELSE IF request.params.t \notin {"absent", "object"}
  THEN [db |-> store, log |-> log,
        response |-> [status |-> 500,
                      body |-> [id |-> [t |-> "absent"], result |-> [t |-> "absent"],
                                error |-> [t |-> "absent"]]]]
  ELSE LET message == IF request.params.t = "object" /\ "message" \in DOMAIN request.params.v
                      THEN request.params.v.message ELSE [text |-> "None"]
       IN CHOOSE served \in
            {[db |-> h.db, log |-> h.recorded,
              response |-> IF h.raised THEN InternalError(req_id, h.exc)
                           ELSE Success(req_id, h.payload)] :
               h \in {IF "text" \notin DOMAIN message
                      THEN DataHandleCommand(store,
                             IF "command" \in DOMAIN message THEN message.command
                             ELSE "None",
                             IF "args" \in DOMAIN message THEN message.args ELSE <<>>)
                      ELSE [db |-> store, raised |-> FALSE, exc |-> "",
                            payload |-> [result |-> Some("CustomerDataAgent received: "
                                                         \o message.text),
                                         error |-> None],
                            recorded |-> <<>>]}} : TRUE

\* rpc_endpoint of the support service with its _handle_message
support_rpc_endpoint(store, log, request) ==
  LET req_id == IF request.id.t = "absent" THEN [t |-> "null"] ELSE request.id IN
  IF request.method # "message/send"
  THEN [db |-> store, log |-> log, response |-> UnsupportedMethod(req_id)]
  ELSE IF request.params.t \notin {"absent", "object"}
  THEN [db |-> store, log |-> log,
        response |-> [status |-> 500,
                      body |-> [id |-> [t |-> "absent"], result |-> [t |-> "absent"],
                                error |-> [t |-> "absent"]]]]
  ELSE LET message == IF request.params.t = "object" /\ "message" \in DOMAIN request.params.v
                      THEN request.params.v.message ELSE [text |-> "None"]
       IN CHOOSE served \in
            {[db |-> h.db, log |-> h.recorded,
              response |-> IF h.raised THEN InternalError(req_id, h.exc)
                           ELSE Success(req_id, h.payload)] :
               h \in {IF "text" \notin DOMAIN message
                      THEN SupportHandleCommand(store,
                             IF "command" \in DOMAIN message THEN message.command
                             ELSE "None",
                             IF "args" \in DOMAIN message THEN message.args ELSE <<>>)
                      ELSE [db |-> store, raised |-> FALSE, exc |-> "",
                            payload |-> [result |-> Some("SupportAgent received: "
                                                         \o message.text),
                                         error |-> None],
                            recorded |-> <<>>]}} : TRUE

\* A2ASimpleClient.send_message after the POST: resp.raise_for_status();
\* data = resp.json(); if "error" in data: raise RuntimeError(data["error"]);
\* return data.get("result", {}).get("message").  The outcome is what was
\* returned, or the exception raised and the argument it carries.
send_message(resp) ==
  IF resp.status < 200 \/ resp.status >= 300
  THEN [kind |-> "HTTPStatusError", value |-> None, arg |-> [t |-> "absent"]]
  ELSE IF resp.body.error.t # "absent"
  THEN [kind |-> "RuntimeError", value |-> None, arg |-> resp.body.error]
  ELSE IF resp.body.result.t = "absent"
  THEN [kind |-> "returned", value |-> None, arg |-> [t |-> "absent"]]
  ELSE IF resp.body.result.t # "object"
  THEN [kind |-> "AttributeError", value |-> None, arg |-> [t |-> "absent"]]
  ELSE [kind |-> "returned",
        value |-> IF "message" \in DOMAIN resp.body.result.v
                  THEN Some(resp.body.result.v.message) ELSE None,
        arg |-> [t |-> "absent"]]

\* RemoteToolResult(result=payload.get("result"), error=payload.get("error"))
RemoteToolResult(payload) == [result |-> payload.result, error |-> payload.error]

\* what a proxy makes of send_message's outcome: the exception passes through,
\* payload.get on a payload of None raises AttributeError
Unwrapped(out) ==
  IF out.kind # "returned" THEN [raised |-> TRUE, exc |-> out.kind, payload |-> None]
  ELSE IF out.value = None THEN [raised |-> TRUE, exc |-> "AttributeError", payload |-> None]
  ELSE [raised |-> FALSE, exc |-> "", payload |-> out.value]

\* a CustomerDataProxy operation: the command sent to the data service, and the
\* RemoteToolResult made of the payload (or the exception raised)
CustomerDataProxy(store, call) ==
  CHOOSE out \in
    {LET u == Unwrapped(send_message(served.response))
     IN [db |-> served.db, raised |-> u.raised, exc |-> u.exc,
         ret |-> IF u.raised THEN [result |-> None, error |-> None]
                 ELSE RemoteToolResult(u.payload[1])] :
       served \in {data_rpc_endpoint(store, <<>>, Request(DataCommand(call)))}} : TRUE

\* the result a task of the multi-intent scenario gets for its call whose tool
\* ran in a worker thread and returned `result`: the ToolResult in process, the
\* proxy's RemoteToolResult of the data service's answer otherwise
TaskResult(call, result) ==
  IF remote
  THEN LET resp == IF DataTool(DataCommand(call).command) = "none"
                   THEN InternalError(Request(DataCommand(call)).id,
                                      "Unknown command: " \o DataCommand(call).command)
                   ELSE Success(Request(DataCommand(call)).id,
                                _serialize_tool_result(result))
           u == Unwrapped(send_message(resp))
       IN [raised |-> u.raised, exc |-> u.exc,
           ret |-> IF u.raised THEN [result |-> None, error |-> None]
                   ELSE RemoteToolResult(u.payload[1])]
  ELSE [raised |-> FALSE, exc |-> "", ret |-> result]

\* a result x of the Support Delegate (or of high_priority_tickets) as the
\* Router receives it: directly in process; behind the router service as
\* payload.get("result", ...) of the service's {"result": x, "error": None}
Received(x) ==
  IF remote
  THEN LET u == Unwrapped(send_message(Success(Request(<<>>).id,
                                                    [result |-> x, error |-> None])))
       IN [raised |-> u.raised, exc |-> u.exc,
           value |-> IF u.raised THEN None ELSE u.payload[1].result]
  ELSE [raised |-> FALSE, exc |-> "", value |-> x]

\* a failure of the store under a tool call (sqlite3.OperationalError), which the
\* MCPServer method turns into ToolResult(call, result=None, error=str(exc))
StoreFailure == ToolResult(Raise("database is locked", 0))

\* a call of the Router goes through CustomerDataProxy behind the router
\* service; in process, and inside a service (Support's calls, the loop of
\* high_priority_tickets), it is the delegate's own call
ThroughProxy(q) == remote /\ q.call.sender = "Router" /\ q.pc # "hp.hist"

\* the tool call of an outstanding delegate call runs against the store
Exec(r) ==
  /\ req[r].callState = "pending"
  /\ LET c == req[r].call
         out == IF c.op = "hop"
                THEN [db |-> db, raised |-> FALSE, exc |-> "",
                      ret |-> [result |-> None, error |-> None]]
                ELSE IF ThroughProxy(req[r]) THEN CustomerDataProxy(db, c)
                ELSE LET x == RunTool(db, c.op, c.args)
                     IN [db |-> x.db, raised |-> FALSE, exc |-> "", ret |-> x.ret]
     IN /\ db' = out.db
        /\ req' = IF out.raised
                  THEN [req EXCEPT ![r] = Fail([@ EXCEPT !.trail = Settle(@, c, StoreFailure)],
                                               out.exc)]
                  ELSE [req EXCEPT ![r].ret = Some(out.ret), ![r].callState = "done",
                                   ![r].trail = Settle(@, c, out.ret)]
  /\ UNCHANGED <<remote, events, calls, wr, cls, rpc>>

\* the tool call of an outstanding delegate call fails in the store
ExecFails(r) ==
  /\ req[r].callState = "pending"
  /\ req[r].call.op # "hop"
  /\ req' = [req EXCEPT ![r].ret = Some(StoreFailure), ![r].callState = "done",
                        ![r].trail = Settle(@, req[r].call, StoreFailure)]
  /\ UNCHANGED <<db, remote, events, calls, wr, cls, rpc>>

Resumed(r, pc) == req[r].pc = pc /\ req[r].callState = "done"

\* _get_customer's result for the fetched ToolResult
LookupReplyAlways(customer_id, result) ==
  [kind |-> "Customer", customer_id |-> customer_id,
   record |-> IF result.result # None THEN result.result[1]
              ELSE [id |-> customer_id, name |-> "", email |-> "", status |-> ""]]

LookupReply(customer_id, result) ==
  IF result.error # None \/ ~TruthyRow(result.result) THEN NotFound
  ELSE [kind |-> "Customer", customer_id |-> customer_id, record |-> result.result[1]]

GetCustomerFetched(r) ==
  /\ Resumed(r, "lookup.fetch")
  /\ LET q == req[r]
         reply == LookupReply(q.customer_id, q.ret[1])
     IN Finish(r, q,
               IF reply = NotFound THEN <<>>
               ELSE <<_log_step("Support", "scenario1.route_to_support",
                                [customer_id |-> q.customer_id])>>,
               reply)
  /\ UNCHANGED <<db, remote, calls, wr, cls, rpc>>

UpgradeFetched(r) ==
  /\ Resumed(r, "upgrade.fetch")
  /\ LET q == [req[r] EXCEPT !.info = req[r].ret] IN
     handle_support(r, q,
       <<_log_step("Support", "scenario1.handle_support", [issue |-> "Upgrade request"])>>,
       q.info[1].result, FALSE,
       [kind |-> "support",
        reply |-> SupportReply(q.info[1].result, "Upgrade request", FALSE, NoContext)])
  /\ UNCHANGED <<db, remote, calls, wr, cls, rpc>>

FallbackFetched(r) ==
  /\ Resumed(r, "fallback.fetch")
  /\ LET q == [req[r] EXCEPT !.info = req[r].ret] IN
     handle_support(r, q,
       <<_log_step("Support", "scenario_generic.handle_support",
                   [issue |-> "General inquiry"])>>,
       q.info[1].result, FALSE,
       [kind |-> "support",
        reply |-> SupportReply(q.info[1].result, "General inquiry", FALSE, NoContext)])
  /\ UNCHANGED <<db, remote, calls, wr, cls, rpc>>

\* SupportProxy's round trip returns: the scenario returns its response
SupportReturned(r) ==
  /\ Resumed(r, "support")
  /\ LET q == req[r]
         got == Received(Some(q.reply[1].reply))
     IN IF got.raised THEN Throw(r, q, got.exc)
        ELSE Finish(r, q, <<>>, [q.reply[1] EXCEPT !.reply = got.value[1]])
  /\ UNCHANGED <<db, remote, calls, wr, cls, rpc>>

\* _cancel_with_billing_issue's context_summary of the history items
ContextSummary(history_items) ==
  IF history_items # <<>>
  THEN [text |-> "",
        items |-> [i \in DOMAIN history_items |->
                     [issue |-> history_items[i].issue,
                      status |-> history_items[i].status,
                      priority |-> history_items[i].priority]]]
  ELSE [text |-> "No prior billing tickets.", items |-> <<>>]

CancelHistory(r) ==
  /\ Resumed(r, "cancel.hist")
  /\ LET q == req[r]
         context_summary == ContextSummary(OrEmpty(q.ret[1].result))
     IN handle_support(r, q, <<>>, None, FALSE,
          [kind |-> "cancel",
           reply |-> SupportReply(None, "Cancel subscription with billing issues",
                                  TRUE, NoContext),
           context |-> context_summary])
  /\ UNCHANGED <<db, remote, calls, wr, cls, rpc>>

\* the report's filter without the test of the status
OpenOfAll(result) == OrEmpty(result)

\* `open_tickets.extend(t for t in history.result or [] if t["status"] != "resolved")`
OpenOf(result) == SelectSeq(OrEmpty(result), LAMBDA t : t.status # "resolved")

\* the active-customers report for the collected tickets
OpenTicketsReply(open_tickets) ==
  IF open_tickets = <<>> THEN NoOpenTickets
  ELSE [kind |-> "open_tickets",
        lines |-> [i \in DOMAIN open_tickets |->
                     [customer_id |-> open_tickets[i].customer_id,
                      ticket_id |-> open_tickets[i].id,
                      issue |-> open_tickets[i].issue,
                      priority |-> open_tickets[i].priority,
                      status |-> open_tickets[i].status]]]

\* list_customers returned: the loop over `customers or []` starts
ActiveListed(r) ==
  /\ Resumed(r, "active.list")
  /\ LET customers == OrEmpty(req[r].ret[1].result)
         q == [req[r] EXCEPT !.rows = customers, !.idx = 1, !.acc = <<>>]
     IN IF customers = <<>>
        THEN Finish(r, q, <<>>, OpenTicketsReply(<<>>))
        ELSE LET d == Data_history(customers[1].id, "Router") IN
             Commit(r, events, Issue(q, "active.hist", d.call), Deleg(<<d.event>>))
  /\ UNCHANGED <<db, remote, calls, wr, cls, rpc>>

\* the loop of the report fetching a customer's history once more when the
\* fetch returned an error
ActiveHistoryRetry(r) ==
  /\ Resumed(r, "active.hist")
  /\ LET failed == req[r].ret[1].error # None
                   /\ Cardinality({i \in DOMAIN req[r].trail :
                                     req[r].trail[i].call = req[r].call}) < 2
         q == [req[r] EXCEPT !.acc = @ \o OpenOf(req[r].ret[1].result), !.idx = @ + 1]
     IN IF failed
        THEN Commit(r, events, Issue(req[r], "active.hist", req[r].call), <<>>)
        ELSE IF q.idx > Len(q.rows)
        THEN Finish(r, q, <<>>, OpenTicketsReply(q.acc))
        ELSE LET d == Data_history(q.rows[q.idx].id, "Router") IN
             Commit(r, events, Issue(q, "active.hist", d.call), Deleg(<<d.event>>))
  /\ UNCHANGED <<db, remote, calls, wr, cls, rpc>>

\* one history returned: keep its open tickets, fetch the next customer's
ActiveHistory(r) ==
  /\ Resumed(r, "active.hist")
  /\ LET q == [req[r] EXCEPT !.acc = @ \o OpenOf(req[r].ret[1].result), !.idx = @ + 1]
     IN IF q.idx > Len(q.rows)
        THEN Finish(r, q, <<>>, OpenTicketsReply(q.acc))
        ELSE LET d == Data_history(q.rows[q.idx].id, "Router") IN
             Commit(r, events, Issue(q, "active.hist", d.call), Deleg(<<d.event>>))
  /\ UNCHANGED <<db, remote, calls, wr, cls, rpc>>

\* list(dict.fromkeys(ids)): the first occurrence of each id, in order
RECURSIVE Dedupe(_)
Dedupe(ids) ==
  IF ids = <<>> THEN <<>>
  ELSE LET rest == Dedupe(SubSeq(ids, 1, Len(ids) - 1))
           last == ids[Len(ids)]
       IN IF \E i \in DOMAIN rest : rest[i] = last THEN rest ELSE Append(rest, last)

\* the premium-id selection of _high_priority_report
PremiumIds(customers) ==
  LET chosen == SelectSeq(customers, LAMBDA c : c.id = VipId \/ c.status = "vip")
  IN Dedupe([i \in DOMAIN chosen |-> chosen[i].id])

\* the high-priority report for the collected tickets
HighPriorityReply(tickets) ==
  IF tickets = <<>> THEN NoHighPriority
  ELSE [kind |-> "tickets",
        lines |-> [i \in DOMAIN tickets |->
                     [id |-> tickets[i].id, customer_id |-> tickets[i].customer_id,
                      issue |-> tickets[i].issue, status |-> tickets[i].status]]]

\* list_customers returned: select the premium ids, start high_priority_tickets
HighPriorityListed(r) ==
  /\ Resumed(r, "hp.list")
  /\ LET premium_ids == PremiumIds(OrEmpty(req[r].ret[1].result))
         q == [req[r] EXCEPT !.rows = premium_ids, !.idx = 1, !.acc = <<>>]
     IN IF premium_ids = <<>>
        THEN Finish(r, q, <<>>, NoHighPriority)
        ELSE LET d == Data_history(premium_ids[1], "Router") IN
             Commit(r, events, Issue(q, "hp.hist", d.call),
                    <<_log_step("CustomerData", "scenario3.high_priority_tickets",
                                [customer_ids |-> premium_ids])>> \o Deleg(<<d.event>>))
  /\ UNCHANGED <<db, remote, calls, wr, cls, rpc>>

\* the loop of high_priority_tickets giving up at the first history that
\* returned an error
HighPriorityHistoryStops(r) ==
  /\ Resumed(r, "hp.hist")
  /\ LET q == [req[r] EXCEPT !.acc = @ \o HighOf(req[r].ret[1].result), !.idx = @ + 1]
         got == Received(Some(q.acc))
     IN IF q.idx > Len(q.rows) \/ req[r].ret[1].error # None
        THEN IF got.raised THEN Throw(r, q, got.exc)
             ELSE Finish(r, q, <<>>, HighPriorityReply(OrEmpty(got.value)))
        ELSE LET d == Data_history(q.rows[q.idx], "Router") IN
             Commit(r, events, Issue(q, "hp.hist", d.call), Deleg(<<d.event>>))
  /\ UNCHANGED <<db, remote, calls, wr, cls, rpc>>

\* high_priority_tickets' loop: one history returned
HighPriorityHistory(r) ==
  /\ Resumed(r, "hp.hist")
  /\ LET q == [req[r] EXCEPT !.acc = @ \o HighOf(req[r].ret[1].result), !.idx = @ + 1]
         got == Received(Some(q.acc))
     IN IF q.idx > Len(q.rows)
        THEN IF got.raised THEN Throw(r, q, got.exc)
             ELSE Finish(r, q, <<>>, HighPriorityReply(OrEmpty(got.value)))
        ELSE LET d == Data_history(q.rows[q.idx], "Router") IN
             Commit(r, events, Issue(q, "hp.hist", d.call), Deleg(<<d.event>>))
  /\ UNCHANGED <<db, remote, calls, wr, cls, rpc>>

\* _escalation's second block with the ticket created before the negotiation
\* event is recorded
EscalationFetchedTicketFirst(r) ==
  /\ Resumed(r, "esc.fetch")
  /\ LET q == [req[r] EXCEPT !.info = req[r].ret]
         d == Data_create_ticket(q.customer_id, "Billing refund request (duplicate charge)",
                                 "high", "Support")
     IN Commit(r, events, Issue(q, "esc.ticket", d.call),
               Deleg(<<d.event>>)
               \o <<_log_step("Support", "scenario2.negotiate", [issue |-> "Billing refund"])>>)
  /\ UNCHANGED <<db, remote, calls, wr, cls, rpc>>

\* _escalation after the customer fetch: the negotiation step, then ensure_ticket
EscalationFetched(r) ==
  /\ Resumed(r, "esc.fetch")
  /\ LET q == [req[r] EXCEPT !.info = req[r].ret]
         d == Data_create_ticket(q.customer_id, "Billing refund request (duplicate charge)",
                                 "high", "Support")
     IN Commit(r, events, Issue(q, "esc.ticket", d.call),
               <<_log_step("Support", "scenario2.negotiate", [issue |-> "Billing refund"])>>
               \o Deleg(<<d.event>>))
  /\ UNCHANGED <<db, remote, calls, wr, cls, rpc>>

EscalationReply(reply, ticket) == [kind |-> "escalation", reply |-> reply, ticket |-> ticket]

\* ensure_ticket returned result.result; handle_support(info.result, urgent, needs_context)
EscalationTicket(r) ==
  /\ Resumed(r, "esc.ticket")
  /\ LET got == Received(req[r].ret[1].result)
         q == [req[r] EXCEPT !.ticket = got.value]
         customer == q.info[1].result
     IN IF got.raised THEN Throw(r, req[r], got.exc)
        ELSE handle_support(r, q, <<>>, customer, TRUE,
               EscalationReply(SupportReply(customer, "Billing refund", TRUE, NoContext),
                               q.ticket))
  /\ UNCHANGED <<db, remote, calls, wr, cls, rpc>>

\* handle_support's context history returned: context_note, the reply, then
\* the response of the block that called handle_support
EscalationContext(r) ==
  /\ Resumed(r, "esc.ctx")
  /\ LET q == req[r]
         got == Received(Some([q.reply[1].reply EXCEPT
                                 !.context_note = ContextNote(q.ret[1])]))
     IN IF got.raised THEN Throw(r, q, got.exc)
        ELSE Finish(r, q, <<>>, [q.reply[1] EXCEPT !.reply = got.value[1]])
  /\ UNCHANGED <<db, remote, calls, wr, cls, rpc>>

\* ------------------------------------------- the multi-intent scenario's tasks
\* the two calls of the scenario's tasks
UpdateCall(q) ==
  Data_update_customer(q.customer_id, [email |-> q.new_email[1]], "Router").call

HistoryCall(q) == Data_history(q.customer_id, "Router").call

\* update_task runs first (it was created first): update_customer records its
\* event and hands server.update_customer to a worker thread
UpdateTaskStart(r) ==
  /\ req[r].pc = "multi.gather" /\ req[r].upd = "created"
  /\ LET q == req[r]
         d == Data_update_customer(q.customer_id, [email |-> q.new_email[1]], "Router")
     IN Commit(r, events, [q EXCEPT !.upd = "issued", !.trail = Issued(@, d.call)],
               Deleg(<<d.event>>))
  /\ UNCHANGED <<db, remote, calls, wr, cls, rpc>>

\* history_task started without waiting for update_task to have started
HistoryTaskStartsAnyTime(r) ==
  /\ req[r].pc = "multi.gather" /\ req[r].hist = "created"
  /\ LET q == req[r]
         d == Data_history(q.customer_id, "Router")
     IN Commit(r, events, [q EXCEPT !.hist = "issued", !.trail = Issued(@, d.call)],
               Deleg(<<d.event>>))
  /\ UNCHANGED <<db, remote, calls, wr, cls, rpc>>

\* history_task runs next: history records its event and hands
\* server.get_customer_history to a worker thread
HistoryTaskStart(r) ==
  /\ req[r].pc = "multi.gather" /\ req[r].hist = "created" /\ req[r].upd # "created"
  /\ LET q == req[r]
         d == Data_history(q.customer_id, "Router")
     IN Commit(r, events, [q EXCEPT !.hist = "issued", !.trail = Issued(@, d.call)],
               Deleg(<<d.event>>))
  /\ UNCHANGED <<db, remote, calls, wr, cls, rpc>>

\* the worker thread of update_customer: the UPDATE and its commit
UpdateWrite(r) ==
  /\ req[r].upd = "issued"
  /\ LET q == req[r]
         w == update_customer_write(db, q.customer_id, [email |-> q.new_email[1]])
     IN /\ db' = w.db
        /\ req' = [req EXCEPT ![r].upd = "written", ![r].updExc = w.exc]
  /\ UNCHANGED <<remote, events, calls, wr, cls, rpc>>

\* the worker thread of update_customer: return get_customer(customer_id)
UpdateRead(r) ==
  /\ req[r].upd = "written"
  /\ LET q == req[r]
         ret == ToolResult(update_customer_read(db, q.customer_id, q.updExc))
         got == TaskResult(UpdateCall(q), ret)
     IN req' = [req EXCEPT ![r] =
                  LET done == [q EXCEPT !.upd = "done",
                                        !.updRet = Some(got.ret),
                                        !.trail = Settle(@, UpdateCall(q), ret),
                                        !.firstDone = IF @ = "" THEN "update" ELSE @]
                  IN IF got.raised THEN Fail(done, got.exc) ELSE done]
  /\ UNCHANGED <<db, remote, events, calls, wr, cls, rpc>>

\* the worker thread of update_customer fails in the store, before the UPDATE
\* or at the read-back
UpdateFails(r) ==
  /\ req[r].upd \in {"issued", "written"}
  /\ req' = [req EXCEPT
               ![r].upd = "done",
               ![r].updRet = Some(StoreFailure),
               ![r].trail = Settle(@, UpdateCall(req[r]), StoreFailure),
               ![r].firstDone = IF @ = "" THEN "update" ELSE @]
  /\ UNCHANGED <<db, remote, events, calls, wr, cls, rpc>>

\* the worker thread of history
HistoryRead(r) ==
  /\ req[r].hist = "issued"
  /\ LET q == req[r]
         ret == ToolResult(get_customer_history(db, q.customer_id))
         got == TaskResult(HistoryCall(q), ret)
     IN req' = [req EXCEPT ![r] =
                  LET done == [q EXCEPT !.hist = "done",
                                        !.histRet = Some(got.ret),
                                        !.trail = Settle(@, HistoryCall(q), ret),
                                        !.firstDone = IF @ = "" THEN "history" ELSE @]
                  IN IF got.raised THEN Fail(done, got.exc) ELSE done]
  /\ UNCHANGED <<db, remote, events, calls, wr, cls, rpc>>

\* the worker thread of history fails in the store
HistoryFails(r) ==
  /\ req[r].hist = "issued"
  /\ req' = [req EXCEPT
               ![r].hist = "done",
               ![r].histRet = Some(StoreFailure),
               ![r].trail = Settle(@, HistoryCall(req[r]), StoreFailure),
               ![r].firstDone = IF @ = "" THEN "history" ELSE @]
  /\ UNCHANGED <<db, remote, events, calls, wr, cls, rpc>>

\* the gather that resumes as soon as the history task is done
GatherHistoryOnly(q) == q.hist = "done"

\* `await asyncio.gather(update_task, history_task)` / `await history_task`
GatherReady(q) == q.hist = "done" /\ q.upd \in {"none", "done"}

\* the displayed email taken from the request instead of the updated record
EmailValRequested(updated) == "unchanged"

\* the displayed email with a failed update told apart from no update
EmailValOrFailed(updated) ==
  IF updated = None THEN "unchanged"
  ELSE IF TruthyRow(updated[1].result) THEN updated[1].result[1].email
  ELSE "not updated"

\* updated.result["email"] if updated and updated.result else "unchanged"
EmailVal(updated) ==
  IF updated # None /\ TruthyRow(updated[1].result) THEN updated[1].result[1].email
  ELSE "unchanged"

\* both tasks are done: the display email, then Support's summarize_history
MultiGathered(r) ==
  /\ req[r].pc = "multi.gather" /\ GatherReady(req[r])
  /\ LET q == [req[r] EXCEPT !.email_val = EmailVal(req[r].updRet)]
         d == Data_history(q.customer_id, "Support")
     IN Commit(r, events, Issue(q, "multi.summary", d.call), Deleg(<<d.event>>))
  /\ UNCHANGED <<db, remote, calls, wr, cls, rpc>>

\* f"Email updated to {email_val}. History: {summary}"
MultiSummary(r) ==
  /\ Resumed(r, "multi.summary")
  /\ LET q == req[r]
         got == Received(Some(Summary(q.ret[1])))
     IN IF got.raised THEN Throw(r, q, got.exc)
        ELSE Finish(r, q, <<>>,
                    [kind |-> "multi", email_val |-> q.email_val, summary |-> got.value[1]])
  /\ UNCHANGED <<db, remote, calls, wr, cls, rpc>>

\* ------------------------------------------------------------ specifications
IdleWait ==
  [pc |-> "idle", attempts |-> 0, delay |-> 0, i |-> 0, fetches |-> 0, sleeps |-> 0,
   slept |-> 0, last_error |-> None, raised |-> None, errs |-> <<>>, okAt |-> 0]

IdleCls == [text |-> <<>>, intent |-> "", customer_id |-> 0, state |-> "new"]

\* a router constructed over a store, nothing called yet
Init ==
  /\ db \in InitialStores
  /\ remote \in BOOLEAN
  /\ events = <<>>
  /\ req = [c \in Clients |-> IdleReq]
  /\ calls = 0
  /\ wr = IdleWait
  /\ cls = IdleCls
  /\ rpc = [pc |-> "idle", peer |-> "", request |-> <<>>, response |-> <<>>, out |-> <<>>,
            db0 |-> <<>>, log0 |-> <<>>, log |-> <<>>]

\* a step of a handle call after its first block
Step(r) ==
  \/ Exec(r)
  \/ GetCustomerFetched(r)
  \/ UpgradeFetched(r)
  \/ FallbackFetched(r)
  \/ SupportReturned(r)
  \/ CancelHistory(r)
  \/ ActiveListed(r)
  \/ ActiveHistory(r)
  \/ HighPriorityListed(r)
  \/ HighPriorityHistory(r)
  \/ EscalationFetched(r)
  \/ EscalationTicket(r)
  \/ EscalationContext(r)
  \/ UpdateTaskStart(r)
  \/ HistoryTaskStart(r)
  \/ UpdateWrite(r)
  \/ UpdateRead(r)
  \/ HistoryRead(r)
  \/ MultiGathered(r)
  \/ MultiSummary(r)

\* handle calls made one after another on one router
Next == \E r \in Clients : HandleSerial(r) \/ Step(r)

Spec == Init /\ [][Next]_vars

\* two requests served at the same time by one router
NextConcurrent == \E r \in Clients : HandleConcurrent(r) \/ Step(r)

SpecConcurrent == Init /\ [][NextConcurrent]_vars

\* one handle call at a time, over a store whose tool calls may fail
HandleFaulty(r) ==
  /\ req[r].pc \in {"idle", "done", "raised"}
  /\ \A c \in Clients : ~InFlight(c)
  /\ calls < MaxFaultyCalls
  /\ \E query \in Queries : handle(r, query)

NextFaulty ==
  \E r \in Clients :
    HandleFaulty(r) \/ Step(r) \/ ExecFails(r) \/ UpdateFails(r) \/ HistoryFails(r)

SpecFaulty == Init /\ [][NextFaulty]_vars

\* ------------------------------------------- delegate operations called directly
\* CustomerDataAgent.high_priority_tickets(customer_ids): `tickets = []`, then
\* the loop's first history call (or `return tickets` for no id)
BulkCall(r) ==
  /\ req[r].pc = "idle"
  /\ calls = 0
  /\ \E ids \in {<<>>, <<VipId>>, <<1, VipId>>, <<VipId, 1>>, <<0, VipId, 1>>, <<1, 99, 1>>} :
       LET q == [IdleReq EXCEPT !.intent = "bulk", !.rows = ids, !.idx = 1,
                                !.callNo = calls + 1, !.db0 = db]
       IN IF ids = <<>>
          THEN Finish(r, q, <<>>, HighPriorityReply(<<>>))
          ELSE LET d == Data_history(ids[1], "Router") IN
               Commit(r, events, Issue(q, "hp.hist", d.call), Deleg(<<d.event>>))
  /\ calls' = calls + 1
  /\ UNCHANGED <<db, remote, wr, cls, rpc>>

\* SupportAgent.handle_support called with no customer or a customer of the
\* store, urgent or not, with and without needs_context
SupportCall(r) ==
  /\ req[r].pc = "idle"
  /\ calls = 0
  /\ \E customer \in {None} \cup {Some(db.customers[i]) : i \in {1, VipId} \cap DOMAIN db.customers},
        urgent \in BOOLEAN, needs_context \in BOOLEAN :
       LET q == [IdleReq EXCEPT
                   !.intent = "handle_support",
                   !.params = [customer |-> customer, urgent |-> urgent,
                               needs_context |-> needs_context],
                   !.callNo = calls + 1, !.db0 = db]
       IN handle_support(r, q, <<>>, customer, needs_context,
            [kind |-> "support",
             reply |-> SupportReply(customer, "Upgrade request", urgent, NoContext)])
  /\ calls' = calls + 1
  /\ UNCHANGED <<db, remote, wr, cls, rpc>>

\* one direct call of a delegate operation over a store whose tool calls may fail
SpecDelegates ==
  Init /\ [][\E r \in Clients :
               \/ BulkCall(r) \/ SupportCall(r)
               \/ Exec(r) \/ ExecFails(r)
               \/ HighPriorityHistory(r) \/ EscalationContext(r) \/ SupportReturned(r)]_vars

\* ------------------------------------------------ one send_message call
\* the messages sent to the data service: the proxy's commands, the bulk
\* command, a command the service does not know, free text
DataMessages ==
  {DataCommand(d.call) :
     d \in {Data_fetch_customer(1, "Router"), Data_fetch_customer(99, "Router"),
            Data_list_customers(Some("active"), ListLimit, "Router"),
            Data_update_customer(1, [email |-> "new@mail.example"], "Router"),
            Data_create_ticket(1, "Billing refund request (duplicate charge)", "high",
                               "Support"),
            Data_create_ticket(99, "Billing refund request (duplicate charge)", "high",
                               "Support"),
            Data_history(1, "Router")}}
  \cup {[command |-> "high_priority_tickets", args |-> [customer_ids |-> <<VipId>>]],
        [command |-> "nope", args |-> [sender |-> "Router"]],
        [args |-> [sender |-> "Router"]],
        [text |-> "hello"]}

\* the messages sent to the support service
SupportMessages ==
  {[command |-> "handle_support",
    args |-> [customer |-> None, issue |-> "Upgrade request", urgent |-> FALSE,
              needs_context |-> FALSE]],
   [command |-> "ensure_ticket",
    args |-> [customer_id |-> 1, issue |-> "Billing refund request (duplicate charge)",
              priority |-> "high"]],
   [command |-> "ensure_ticket",
    args |-> [customer_id |-> 99, issue |-> "Billing refund request (duplicate charge)",
              priority |-> "high"]],
   [command |-> "summarize_history", args |-> [customer_id |-> 1]],
   [command |-> "nope", args |-> [customer_id |-> 1]],
   [args |-> [customer_id |-> 1]],
   [text |-> "hello"]}

\* the responses of some other JSON-RPC peer: a status with a JSON body that has
\* a result member, an error member, both or neither
PeerResponses ==
  [status : {200, 204, 302, 404, 500},
   body : [result : {[t |-> "absent"], [t |-> "null"],
                     [t |-> "object", v |-> [message |-> [result |-> Some("ok"),
                                                          error |-> None]]],
                     [t |-> "object", v |-> [task |-> "t1"]]},
           error : {[t |-> "absent"], [t |-> "null"],
                    [t |-> "object", v |-> [code |-> -32000, message |-> "boom"]]}]]

\* the requests POSTed with a message: send_message's payload, and payloads of
\* other clients with another method, another id or none, and params that are
\* absent, null or an object without a message
Requests(message) ==
  {[id |-> id, method |-> method, params |-> params] :
     id \in {Request(message).id, [t |-> "object", v |-> "7"], [t |-> "absent"]},
     method \in {"message/send", "tasks/get"},
     params \in {Request(message).params, [t |-> "absent"], [t |-> "null"],
                 [t |-> "object", v |-> [task |-> "t1"]]}}

\* the client POSTs a request and the peer answers it: one of this repository's
\* services handling a message (or a method it does not support), or another
\* peer; the service's log holds what its last message left there
RpcPost ==
  /\ rpc.pc = "idle"
  /\ \E log \in {<<>>, <<Data_history(1, "Support").event>>} :
       \/ \E message \in DataMessages : \E request \in Requests(message) :
            LET served == data_rpc_endpoint(db, log, request)
            IN /\ db' = served.db
               /\ rpc' = [rpc EXCEPT !.pc = "posted", !.peer = "data", !.db0 = db,
                                     !.log0 = log, !.log = served.log,
                                     !.request = request, !.response = served.response]
       \/ \E message \in SupportMessages : \E request \in Requests(message) :
            LET served == support_rpc_endpoint(db, log, request)
            IN /\ db' = served.db
               /\ rpc' = [rpc EXCEPT !.pc = "posted", !.peer = "support", !.db0 = db,
                                     !.log0 = log, !.log = served.log,
                                     !.request = request, !.response = served.response]
       \/ \E response \in PeerResponses :
            /\ db' = db
            /\ rpc' = [rpc EXCEPT !.pc = "posted", !.peer = "other", !.db0 = db,
                                  !.log0 = log, !.log = log,
                                  !.request = Request([text |-> "hello"]),
                                  !.response = response]
  /\ UNCHANGED <<remote, events, req, calls, wr, cls>>

\* send_message gets the response: it returns or raises
RpcReceive ==
  /\ rpc.pc = "posted"
  /\ rpc' = [rpc EXCEPT !.pc = "done", !.out = send_message(rpc.response)]
  /\ UNCHANGED <<db, remote, events, req, calls, wr, cls>>

SpecRpc == Init /\ [][RpcPost \/ RpcReceive]_vars

\* --------------------------------------------------------- wait_until_ready
\* what the descriptor endpoint answers to one GET
Answers == {"200 card", "200 malformed", "503", "unreachable"}

\* A2ASimpleClient.fetch_agent_card: the exception it raises for an answer, or None
fetch_agent_card(answer) ==
  CASE answer = "unreachable" -> Some("ConnectError")
    [] answer = "503" -> Some("HTTPStatusError")
    [] answer = "200 malformed" -> Some("JSONDecodeError")
    [] OTHER -> None

Delays == {0, 1}

\* a loop whose body runs once before the range is looked at
WaitCallFetchesFirst ==
  /\ wr.pc = "idle"
  /\ \E attempts \in -1..MaxAttempts, delay \in Delays :
       wr' = [wr EXCEPT !.attempts = attempts, !.delay = delay, !.pc = "fetch"]
  /\ UNCHANGED <<db, remote, events, req, calls, cls, rpc>>

\* wait_until_ready is called: `for _ in range(attempts)` is empty for
\* attempts <= 0
WaitCall ==
  /\ wr.pc = "idle"
  /\ \E attempts \in -1..MaxAttempts, delay \in Delays :
       wr' = [wr EXCEPT !.attempts = attempts, !.delay = delay,
                        !.pc = IF attempts > 0 THEN "fetch" ELSE "returned"]
  /\ UNCHANGED <<db, remote, events, req, calls, cls, rpc>>

\* a successful fetch that goes on to the next iteration instead of returning
OnSuccessContinue(w) ==
  [w EXCEPT !.fetches = @ + 1, !.okAt = IF @ = 0 THEN w.fetches + 1 ELSE @,
            !.i = @ + 1,
            !.pc = IF w.i + 1 < w.attempts THEN "fetch" ELSE "returned"]

\* `await self.fetch_agent_card(); return`
OnSuccess(w) ==
  [w EXCEPT !.fetches = @ + 1, !.okAt = IF @ = 0 THEN w.fetches + 1 ELSE @,
            !.pc = "returned"]

\* a handler that keeps the first exception
KeepFirstError(last_error, exc) == IF last_error # None THEN last_error ELSE Some(exc)

\* `except Exception as exc: last_error = exc`
CatchError(last_error, exc) == Some(exc)

\* one fetch of the loop: returns from the call, or fails and goes to sleep
WaitFetch ==
  /\ wr.pc = "fetch"
  /\ \E answer \in Answers :
       LET e == fetch_agent_card(answer)
           exc == [type |-> e[1], attempt |-> wr.fetches + 1]
       IN wr' = IF e = None THEN OnSuccess(wr)
                ELSE [wr EXCEPT !.fetches = @ + 1,
                                !.last_error = CatchError(@, exc),
                                !.errs = Append(@, exc),
                                !.pc = "sleep"]
  /\ UNCHANGED <<db, remote, events, req, calls, cls, rpc>>

\* a loop that never counts its iterations
LoopForever(w) == [w EXCEPT !.pc = "fetch"]

\* after `await asyncio.sleep(delay)`: the next iteration, or the loop is over
\* and `if last_error: raise last_error`
LoopNext(w) ==
  IF w.i + 1 < w.attempts THEN [w EXCEPT !.i = @ + 1, !.pc = "fetch"]
  ELSE IF w.last_error # None THEN [w EXCEPT !.i = @ + 1, !.pc = "raised", !.raised = w.last_error]
  ELSE [w EXCEPT !.i = @ + 1, !.pc = "returned"]

\* `await asyncio.sleep(delay)` returns
WaitSleep ==
  /\ wr.pc = "sleep"
  /\ wr' = LoopNext([wr EXCEPT !.sleeps = @ + 1, !.slept = @ + wr.delay])
  /\ UNCHANGED <<db, remote, events, req, calls, cls, rpc>>

InitWait ==
  /\ db = SeededStore
  /\ remote = TRUE
  /\ events = <<>>
  /\ req = [c \in Clients |-> IdleReq]
  /\ calls = 0
  /\ wr = IdleWait
  /\ cls = IdleCls
  /\ rpc = [pc |-> "idle", peer |-> "", request |-> <<>>, response |-> <<>>, out |-> <<>>,
            db0 |-> <<>>, log0 |-> <<>>, log |-> <<>>]

NextWait == WaitCall \/ WaitFetch \/ WaitSleep

SpecWait == InitWait /\ [][NextWait]_vars

\* each GET ends within the client's timeout and each sleep returns
SpecWaitFair == SpecWait /\ WF_vars(NextWait)

\* ------------------------------------------------------------ classification
\* the texts of at most MaxTextLen phrases
Texts == UNION {[1..n -> Phrases] : n \in 0..MaxTextLen}

InitClassify ==
  /\ db = SeededStore
  /\ remote = FALSE
  /\ events = <<>>
  /\ req = [c \in Clients |-> IdleReq]
  /\ calls = 0
  /\ wr = IdleWait
  /\ cls \in {[text |-> t, intent |-> "", customer_id |-> 0, state |-> "new"] : t \in Texts}
  /\ rpc = [pc |-> "idle", peer |-> "", request |-> <<>>, response |-> <<>>, out |-> <<>>,
            db0 |-> <<>>, log0 |-> <<>>, log |-> <<>>]

\* handle parses the customer id of the text and picks its scenario
ClassifyText ==
  /\ cls.state = "new"
  /\ cls' = [cls EXCEPT !.customer_id = OrDefault(_parse_customer_id(cls.text)),
                        !.intent = Classify(cls.text), !.state = "classified"]
  /\ UNCHANGED <<db, remote, events, req, calls, wr, rpc>>

SpecClassify == InitClassify /\ [][ClassifyText]_vars

\* ------------------------------------- the data service handling messages
\* Each client is a connection to the data service: one POST /rpc in flight.
\* In this specification `events` is the service's module-level
\* conversation_log and `calls` counts the messages received.
\* rpc_endpoint up to the first suspension of _handle_message:
\* conversation_log.clear(), then free text is answered at once, a command the
\* service does not know raises into the error response, and the delegate
\* method of a tool command records its event and awaits the tool in a
\* worker thread
ServiceReceive(r) ==
  /\ req[r].pc \in {"idle", "done"}
  /\ calls < MaxCalls
  /\ \E message \in DataMessages :
       /\ "command" \in DOMAIN message => message.command # "high_priority_tickets"
       /\ LET q == [IdleReq EXCEPT !.params = message, !.callNo = calls + 1, !.db0 = db]
              req_id == Request(message).id
              cleared == Clear(events)
          IN IF "text" \in DOMAIN message
             THEN /\ events' = cleared
                  /\ req' = [c \in Clients |->
                       IF c = r
                       THEN [q EXCEPT !.pc = "done",
                                      !.response = Some(Success(req_id,
                                         [result |-> Some("CustomerDataAgent received: "
                                                          \o message.text),
                                          error |-> None]))]
                       ELSE IF InFlight(c) THEN [req[c] EXCEPT !.cleared = TRUE]
                       ELSE req[c]]
             ELSE LET h == DataHandleCommand(db,
                             IF "command" \in DOMAIN message THEN message.command
                             ELSE "None",
                             message.args)
                  IN /\ events' = Record(cleared, h.recorded, q.callNo)
                     /\ req' = [c \in Clients |->
                          IF c = r
                          THEN IF h.raised
                               THEN [q EXCEPT !.pc = "done",
                                              !.response = Some(InternalError(req_id, h.exc))]
                               ELSE [q EXCEPT !.pc = "svc.tool", !.callState = "pending",
                                              !.own = Record(<<>>, h.recorded, q.callNo)]
                          ELSE IF InFlight(c) THEN [req[c] EXCEPT !.cleared = TRUE]
                          ELSE req[c]]
  /\ calls' = calls + 1
  /\ UNCHANGED <<db, remote, wr, cls, rpc>>

\* the worker thread of the message's delegate method: the tool call
ServiceToolRun(r) ==
  /\ req[r].pc = "svc.tool" /\ req[r].callState = "pending"
  /\ LET message == req[r].params
         h == DataHandleCommand(db, message.command, message.args)
     IN /\ db' = h.db
        /\ req' = [req EXCEPT ![r].ret = Some(h.payload), ![r].callState = "done"]
  /\ UNCHANGED <<remote, events, calls, wr, cls, rpc>>

\* _handle_command returns the serialized ToolResult and rpc_endpoint answers;
\* log keeps what the service's log held at that moment
ServiceRespond(r) ==
  /\ Resumed(r, "svc.tool")
  /\ req' = [req EXCEPT ![r].pc = "done", ![r].callState = "none",
                        ![r].response = Some(Success(Request(req[r].params).id,
                                                     req[r].ret[1])),
                        ![r].log = Dump(events),
                        ![r].logTags = [i \in DOMAIN events |-> events[i].by]]
  /\ UNCHANGED <<db, remote, events, calls, wr, cls, rpc>>

\* the data service receiving messages on two connections
SpecService ==
  Init /\ [][\E r \in Clients :
               ServiceReceive(r) \/ ServiceToolRun(r) \/ ServiceRespond(r)]_vars

\* ------------------------------------------------------------------- claims
Done(r) == req[r].pc = "done"
\* the handle call of r is the latest one started, so nothing ran after it
Latest(r) == req[r].callNo = calls

\* the events of the returned log that the request recorded itself
OwnInLog(r) == {i \in DOMAIN req[r].logTags : req[r].logTags[i] = req[r].callNo}

\* C1: with handle calls made one after another on one router, the log a call
\* returns holds exactly the events recorded during that call: none of an
\* earlier call, and every one of its own, in order.
C1_LogOfCallExact ==
  \A r \in Clients : Done(r) =>
    /\ req[r].log = Dump(req[r].own)
    /\ \A i \in DOMAIN req[r].logTags : req[r].logTags[i] = req[r].callNo

\* a second call has returned its own events after a first call left events behind
C1_Witness ==
  \E r, c \in Clients :
    /\ Done(r) /\ Done(c)
    /\ req[c].callNo = 1 /\ req[c].log # <<>>
    /\ req[r].callNo = 2 /\ req[r].own # <<>>
    /\ req[r].log # req[c].log

\* C2: with two handle calls in flight on one router and one log, a call whose
\* recorded events were cleared by the other call's handle returns a log that
\* lacks events it recorded itself (and the log may hold the other's events).
C2_ClearedCallLosesEvents ==
  \A r \in Clients : (Done(r) /\ req[r].cleared) =>
    Cardinality(OwnInLog(r)) < Len(req[r].own)

\* a returned log that holds an event of the other request and lacks an own one
C2_Witness ==
  \E r \in Clients :
    /\ Done(r)
    /\ \E i \in DOMAIN req[r].logTags : req[r].logTags[i] # req[r].callNo
    /\ Cardinality(OwnInLog(r)) < Len(req[r].own)

\* the rules of the spec's order that a text matches: 1 update-my-email+history,
\* 2 charged-twice/refund, 3 high-priority tickets, 4 open-tickets+active-customers,
\* 5 upgrade, 6 customer information
MatchedRules(text) ==
  LET n == Normalize(text) IN
  {k \in 1..6 :
     \/ k = 1 /\ Has(n, "update my email") /\ Has(n, "history")
     \/ k = 2 /\ (Has(n, "charged twice") \/ Has(n, "refund"))
     \/ k = 3 /\ Has(n, "high-priority tickets")
     \/ k = 4 /\ Has(n, "open tickets") /\ Has(n, "active customers")
     \/ k = 5 /\ (Has(n, "upgrade") \/ Has(n, "upgrad"))
     \/ k = 6 /\ Has(n, "customer information")}

RuleScenario == <<"multi", "escalation", "hp_report", "active_open", "upgrade", "lookup">>

\* the scenario of the highest-priority matching rule, the fallback when none matches
ByFixedOrder(text) ==
  IF MatchedRules(text) = {} THEN "fallback"
  ELSE RuleScenario[FirstOf(MatchedRules(text))]

MatchesCancel(text) ==
  Has(Normalize(text), "cancel my subscription") /\ Has(Normalize(text), "billing")

\* C3 as stated: every text runs the scenario of its highest-priority matching
\* rule among the six, the fallback when it matches none.
C3_Original ==
  cls.state = "classified" => cls.intent = ByFixedOrder(cls.text)

\* C3 as amended: a text with both "cancel my subscription" and "billing" runs
\* the cancel-with-billing scenario; every other text runs exactly the scenario
\* of its highest-priority matching rule, the fallback when it matches none.
C3_ClassificationOrder ==
  cls.state = "classified" =>
    /\ cls.intent \in Intents
    /\ cls.intent = IF MatchesCancel(cls.text) THEN "cancel" ELSE ByFixedOrder(cls.text)

\* a text matching two rules was classified by the higher one
C3_Witness ==
  /\ cls.state = "classified"
  /\ {1, 2} \subseteq MatchedRules(cls.text)
  /\ ~MatchesCancel(cls.text)
  /\ cls.intent = "multi"

WaitOver == wr.pc \in {"returned", "raised"}

\* C4: with attempts >= 1 and every descriptor fetch failing, wait_until_ready
\* makes exactly `attempts` fetches and raises the exception of the last one.
C4_RaisesLastFailure ==
  (WaitOver /\ wr.attempts >= 1 /\ Len(wr.errs) = wr.fetches) =>
    /\ wr.pc = "raised"
    /\ wr.fetches = wr.attempts
    /\ wr.raised = Some(wr.errs[wr.attempts])

\* three failed fetches of different kinds, and the call has raised
C4_Witness ==
  /\ wr.pc = "raised" /\ wr.attempts = 3 /\ Len(wr.errs) = 3
  /\ wr.errs[1].type # wr.errs[3].type

\* C5: once a descriptor fetch succeeds, wait_until_ready has returned: the
\* success is its last fetch, one sleep was made per earlier failure, nothing is
\* raised and no further fetch or sleep can happen.
C5_ReturnsOnFirstSuccess ==
  wr.okAt > 0 =>
    /\ wr.pc = "returned"
    /\ wr.okAt <= wr.attempts
    /\ wr.fetches = wr.okAt
    /\ wr.sleeps = wr.okAt - 1
    /\ wr.raised = None
    /\ ~ENABLED NextWait

\* the second fetch succeeded after a first one failed
C5_Witness == wr.pc = "returned" /\ wr.okAt = 2 /\ Len(wr.errs) = 1

\* C6: wait_until_ready never makes more than `attempts` descriptor fetches, and
\* every call of it returns or raises.
C6_Terminates ==
  /\ [](wr.fetches <= IF wr.attempts > 0 THEN wr.attempts ELSE 0)
  /\ [](wr.pc # "idle" => <>WaitOver)

\* a call has ended after using all of its attempts
C6_Witness == WaitOver /\ wr.attempts = MaxAttempts /\ wr.fetches = wr.attempts

\* the update call of a multi-intent request returned a record without error
UpdateSucceeded(q) ==
  /\ q.updRet # None
  /\ q.updRet[1].error = None
  /\ TruthyRow(q.updRet[1].result)

\* C7: in the multi-intent scenario, when an email was parsed and the update call
\* returned a record without error, the response's "Email updated to" value is
\* the email of the updated record, is the parsed email, and is not "unchanged".
C7_EmailOfUpdatedRecord ==
  \A r \in Clients :
    (Done(r) /\ req[r].intent = "multi" /\ req[r].new_email # None
       /\ UpdateSucceeded(req[r])) =>
      /\ req[r].response[1].email_val = req[r].updRet[1].result[1].email
      /\ req[r].response[1].email_val = req[r].new_email[1]
      /\ req[r].response[1].email_val # "unchanged"

\* a multi-intent request with an email has returned after a successful update
C7_Witness ==
  \E r \in Clients :
    /\ Done(r) /\ req[r].intent = "multi" /\ req[r].new_email # None
    /\ UpdateSucceeded(req[r])
    /\ db.customers[req[r].customer_id].email = req[r].new_email[1]

\* whether the update of a multi-intent request changes the store it started on
Updates(q) == q.new_email # None /\ q.customer_id \in DOMAIN q.db0.customers

\* the response of a multi-intent request, from the store it started on
MultiResponse(q) ==
  [kind |-> "multi",
   email_val |-> IF Updates(q) THEN q.new_email[1] ELSE "unchanged",
   summary |-> Summary(ToolResult(get_customer_history(q.db0, q.customer_id)))]

\* the store a multi-intent request leaves, from the store it started on
MultiStore(q) ==
  IF Updates(q) THEN [q.db0 EXCEPT !.customers[q.customer_id].email = q.new_email[1]]
  ELSE q.db0

\* C8: in the multi-intent scenario the update and history calls are both in
\* flight before the Router waits, the Router goes on to the display email and
\* the summary only when both have completed, and the response and the store
\* after handle returns are fixed by the request and the store it started on,
\* whichever call completed first.
C8_GatherBothThenSameResult ==
  \A r \in Clients : req[r].intent = "multi" =>
    /\ req[r].pc = "multi.gather" =>
         /\ req[r].hist # "none"
         /\ (req[r].new_email # None) = (req[r].upd # "none")
    /\ req[r].pc \in {"multi.summary", "done"} =>
         /\ req[r].hist = "done"
         /\ req[r].upd \in {"none", "done"}
    /\ (Done(r) /\ Latest(r)) =>
         /\ req[r].response[1] = MultiResponse(req[r])
         /\ db = MultiStore(req[r])

\* a multi-intent request has returned whose history call completed before its
\* update call, and the update changed the store
C8_Witness ==
  \E r \in Clients :
    /\ Done(r) /\ req[r].intent = "multi"
    /\ req[r].firstDone = "history" /\ req[r].upd = "done"
    /\ db # req[r].db0

\* the premium ids of the customers that list_customers("active", 50) returns
PremiumOf(store) ==
  LET ids == PremiumIds(OrEmpty(ToolResult(list_customers(store, Some("active"), ListLimit)).result))
  IN {ids[i] : i \in DOMAIN ids}

\* the tickets of selected premium customers that have priority "high"
PremiumHigh(store) ==
  {i \in DOMAIN store.tickets :
     store.tickets[i].customer_id \in PremiumOf(store)
     /\ store.tickets[i].priority = "high"}

C10_LookupReply ==
  \A r \in Clients : req[r].intent = "lookup" =>
    /\ Done(r) =>
         LET q == req[r] IN
         /\ (q.ret[1].error # None \/ q.ret[1].result = None) => q.response[1] = NotFound
         /\ q.customer_id \notin DOMAIN q.db0.customers =>
              q.ret[1].error # None /\ q.response[1] = NotFound
         /\ q.customer_id \in DOMAIN q.db0.customers =>
              q.response[1] = [kind |-> "Customer", customer_id |-> q.customer_id,
                               record |-> q.db0.customers[q.customer_id]]
    /\ InFlight(r) => ENABLED (Exec(r) \/ GetCustomerFetched(r))

\* a lookup of an id the store does not hold has returned "Customer not found."
C10_Witness ==
  \E r \in Clients :
    /\ Done(r) /\ req[r].intent = "lookup"
    /\ req[r].ret[1].error # None
    /\ req[r].response[1] = NotFound

\* the ToolResults a request holds
HeldResults(q) == <<q.ret, q.info, q.updRet, q.histRet>>

\* the calls of a request's trail with operation op that returned an error / a result
Errored(q, op) == {i \in DOMAIN q.trail : q.trail[i].call.op = op /\ q.trail[i].out = "error"}
Succeeded(q, op) == {i \in DOMAIN q.trail : q.trail[i].call.op = op /\ q.trail[i].out = "ok"}

\* what a finished scenario shows of a call that returned an error: nothing
NothingConsumed(q) ==
  LET reply == q.response[1] IN
  /\ (q.intent = "lookup" /\ q.ret[1].error # None) => reply = NotFound
  /\ (q.intent \in {"upgrade", "fallback"} /\ q.info[1].error # None) =>
       reply.reply.label = None
  /\ (q.intent = "escalation" /\ q.info[1].error # None) =>
       reply.reply.label = None /\ reply.reply.context_note = NoContext
  /\ (q.intent = "escalation" /\ Errored(q, "create_ticket") # {}) => reply.ticket = None
  /\ (q.intent = "escalation" /\ Errored(q, "get_customer_history") # {}) =>
       reply.reply.context_note.history = <<>>
  /\ (q.intent = "multi" /\ q.updRet # None /\ q.updRet[1].error # None) =>
       reply.email_val = "unchanged"
  /\ (q.intent = "multi" /\ q.ret[1].error # None) => reply.summary.items = <<>>
  /\ (q.intent = "cancel" /\ q.ret[1].error # None) => reply.context.items = <<>>
  /\ (q.intent = "active_open" /\ Succeeded(q, "get_customer_history") = {}) =>
       reply = NoOpenTickets
  /\ (q.intent = "hp_report" /\ Succeeded(q, "get_customer_history") = {}) =>
       reply = NoHighPriority

\* C11: a ToolResult of the tool layer that carries an error carries no result,
\* and a finished scenario shows nothing taken from the result of a call that
\* returned an error: the lookup says not found, the support reply names no
\* customer, the ticket is absent, the email is "unchanged", the histories and
\* reports are empty.
C11_ErrorMeansNoResult ==
  \A r \in Clients :
    /\ \A i \in DOMAIN HeldResults(req[r]) :
         LET t == HeldResults(req[r])[i] IN
         (t # None /\ t[1].error # None) => t[1].result = None
    /\ Done(r) => NothingConsumed(req[r])

\* a report has returned after its list_customers call, or one of its history
\* calls, failed in the store
C11_Witness ==
  \E r \in Clients :
    /\ Done(r)
    /\ \/ req[r].intent = "hp_report" /\ Errored(req[r], "list_customers") # {}
       \/ req[r].intent = "active_open" /\ Errored(req[r], "get_customer_history") # {}

\* the tool operations of the Data Delegate, as the delegate's events name them
DataOps ==
  {"get_customer", "list_customers", "update_customer", "create_ticket",
   "get_customer_history"}

\* an entry of a returned log that a Data Delegate operation recorded
IsDelegateEntry(e) == e.to = "CustomerData" /\ e.action \in DataOps

\* the call an entry of a multi-intent request's log describes: the Router's
\* scenario5.* steps announce the update call, the history call and Support's
\* summarize_history (which starts with its own history call); a delegate's
\* entry describes the delegate call that recorded it
DescribedCall(q, e) ==
  CASE e.action = "scenario5.update_customer" -> UpdateCall(q)
    [] e.action = "scenario5.history" -> HistoryCall(q)
    [] e.action = "scenario5.summarize_history" -> Data_history(q.customer_id, "Support").call
    [] OTHER -> [op |-> e.action, args |-> e.args, sender |-> e.from]

\* the position of a call among the calls of the request, in the order issued
InitiatedAt(q, call) == CHOOSE i \in DOMAIN q.trail : q.trail[i].call = call

\* C12 as stated: in the log a multi-intent request returns, of any two entries
\* the one listed first describes a call initiated no later than the call the
\* second describes.
C12_Original ==
  \A r \in Clients :
    (Done(r) /\ req[r].intent = "multi") =>
      \A i, j \in DOMAIN req[r].log :
        i < j => InitiatedAt(req[r], DescribedCall(req[r], req[r].log[i]))
                   <= InitiatedAt(req[r], DescribedCall(req[r], req[r].log[j]))

\* the entries of a returned log that Data Delegate operations recorded
DelegateEntries(log) == SelectSeq(log, IsDelegateEntry)

\* C13 as stated: in either deployment the log a handle call returns holds one
\* data-delegate entry for each data operation the call issued, in the order
\* issued.
C13_Original ==
  \A r \in Clients :
    Done(r) =>
      /\ Len(DelegateEntries(req[r].log)) = Len(req[r].trail)
      /\ \A i \in DOMAIN req[r].trail :
           LET e == DelegateEntries(req[r].log)[i]
           IN [op |-> e.action, args |-> e.args, sender |-> e.from] = req[r].trail[i].call

IsPrefix(a, b) == Len(a) <= Len(b) /\ SubSeq(b, 1, Len(a)) = a

\* C14: after the clear at the start of handle, every step of the call, the
\* delegates' operations included, leaves the events already in the trace in
\* place and in order and only appends: the earlier trace is a prefix of the
\* later one.
C14_DelegatesOnlyAppend ==
  [][calls' = calls => IsPrefix(events, events')]_vars

\* the Support Delegate has appended its context request and the Data Delegate its
\* history entry behind the entries of the Router and of earlier delegate calls
C14_Witness ==
  /\ Len(events) >= 5
  /\ events[Len(events)].ev.sender = "Support"
  /\ events[Len(events)].ev.action = "get_customer_history"
  /\ events[1].ev.sender = "Router"

\* the open tickets of the histories of the listed customers, in their order
RECURSIVE OpenTickets(_, _)
OpenTickets(store, customers) ==
  IF customers = <<>> THEN <<>>
  ELSE OpenOf(ToolResult(get_customer_history(store, customers[1].id)).result)
       \o OpenTickets(store, SubSeq(customers, 2, Len(customers)))

\* the response of a request computed call after call with the tools applied
\* directly to the store the request started on, no transport in between
LocalResponse(q) ==
  LET store == q.db0
      cid == q.customer_id
      fetched == ToolResult(get_customer(store, cid))
      active == OrEmpty(ToolResult(list_customers(store, Some("active"), ListLimit)).result)
  IN CASE q.intent = "lookup" -> LookupReply(cid, fetched)
       [] q.intent = "upgrade" ->
            [kind |-> "support",
             reply |-> SupportReply(fetched.result, "Upgrade request", FALSE, NoContext)]
       [] q.intent = "fallback" ->
            [kind |-> "support",
             reply |-> SupportReply(fetched.result, "General inquiry", FALSE, NoContext)]
       [] q.intent = "multi" -> MultiResponse(q)
       [] q.intent = "hp_report" ->
            HighPriorityReply(HighTickets(store, PremiumIds(active)))
       [] q.intent = "active_open" -> OpenTicketsReply(OpenTickets(store, active))
       [] q.intent = "cancel" ->
            [kind |-> "cancel",
             reply |-> SupportReply(None, "Cancel subscription with billing issues",
                                    TRUE, NoContext),
             context |-> ContextSummary(
                           OrEmpty(ToolResult(get_customer_history(store, cid)).result))]
       [] q.intent = "escalation" ->
            LET x == create_ticket(store, cid, "Billing refund request (duplicate charge)",
                                   "high")
                note == IF WantsContext(fetched.result, TRUE)
                        THEN ContextNote(ToolResult(
                               get_customer_history(x.db, fetched.result[1].id)))
                        ELSE NoContext
            IN EscalationReply(SupportReply(fetched.result, "Billing refund", TRUE, note),
                               ToolResult(x.ret).result)

\* C15: for the same query and the same store, handle returns the same response
\* wired to the in-process delegates and wired to the proxies of the data and
\* support services: in both wirings it returns, and what it returns is the
\* response computed with the tools applied directly to the store, also when a
\* tool call returns an error.
C15_SameResponseInBothWirings ==
  \A r \in Clients :
    /\ req[r].pc # "raised"
    /\ Done(r) => req[r].response[1] = LocalResponse(req[r])

\* behind the router service an escalation has returned whose create-ticket call
\* returned an error
C15_Witness ==
  \E r \in Clients :
    /\ remote /\ Done(r) /\ req[r].intent = "escalation"
    /\ \E i \in DOMAIN req[r].trail :
         req[r].trail[i].call.op = "create_ticket" /\ req[r].trail[i].out = "error"

\* the status of a response is a 2xx status
Is2xx(resp) == resp.status >= 200 /\ resp.status < 300

\* the message payload of a response's result, if there is one
MessageOf(resp) ==
  IF resp.body.result.t = "object" /\ "message" \in DOMAIN resp.body.result.v
  THEN Some(resp.body.result.v.message)
  ELSE None

\* C16: send_message has exactly three outcomes: a non-2xx status is a transport
\* failure; otherwise an envelope with an error object is a remote-agent error
\* carrying that object; any other response returns the message payload
\* unwrapped from result, and nothing else is returned or raised.
C16_Original ==
  rpc.pc = "done" =>
    LET resp == rpc.response IN
    IF ~Is2xx(resp) THEN rpc.out.kind = "HTTPStatusError"
    ELSE IF resp.body.error.t = "object"
    THEN rpc.out.kind = "RuntimeError" /\ rpc.out.arg = resp.body.error
    ELSE rpc.out.kind = "returned" /\ rpc.out.value = MessageOf(resp)

\* C17: when the data or the support service answers with a JSON-RPC error
\* object (unsupported method, unknown command, internal failure), send_message
\* fails with the remote-agent error that carries that {code, message} object.
C17_Original ==
  (rpc.pc = "done" /\ rpc.peer \in {"data", "support"}
     /\ rpc.response.body.error.t = "object") =>
    /\ rpc.out.kind = "RuntimeError"
    /\ rpc.out.arg = rpc.response.body.error

\* the calls a request has issued have all returned an error
AllCallsFailed(q) ==
  /\ q.trail # <<>>
  /\ \A i \in DOMAIN q.trail : q.trail[i].out = "error"

\* C18: with in-process delegates, whatever each tool call does (succeed, or
\* return a ToolResult with an error), handle does not raise: a call in flight
\* can always take its next step, and a finished call has returned a response
\* together with the log.
C18_HandleNeverRaises ==
  \A r \in Clients : ~remote =>
    /\ req[r].pc # "raised"
    /\ req[r].exc = None
    /\ InFlight(r) => ENABLED Step(r)
    /\ Done(r) => req[r].response # None
    /\ (Done(r) /\ Latest(r)) => req[r].log = Dump(events)

\* an in-process escalation has returned although its customer fetch and its
\* create-ticket call both returned an error
C18_Witness ==
  \E r \in Clients :
    /\ ~remote /\ Done(r) /\ req[r].intent = "escalation"
    /\ Len(req[r].trail) >= 2 /\ AllCallsFailed(req[r])

TicketCalls(q) == SelectSeq(q.trail, LAMBDA e : e.call.op = "create_ticket")

\* C20: ensure_ticket returns the created ticket record when the create-ticket
\* call succeeds and raises when that call returns an error: an escalation goes
\* on past ensure_ticket only with the created ticket, never after a failed
\* creation.
C20_Original ==
  \A r \in Clients :
    (req[r].intent = "escalation" /\ req[r].pc \in {"esc.ctx", "support", "done"}) =>
      /\ TicketCalls(req[r]) # <<>>
      /\ TicketCalls(req[r])[1].out = "ok"
      /\ req[r].ticket # None

\* the history fetches of a request, in the order they were issued
Fetches(q) == SelectSeq(q.trail, LAMBDA e : e.call.op = "get_customer_history")

\* the high-priority entries of the histories of ids[1..n] on a store, skipping
\* the ids whose fetch (the k-th of `fetches`) returned an error
RECURSIVE HighUpTo(_, _, _, _)
HighUpTo(store, ids, fetches, n) ==
  IF n = 0 THEN <<>>
  ELSE HighUpTo(store, ids, fetches, n - 1)
       \o (IF fetches[n].out = "ok"
           THEN HighOf(ToolResult(get_customer_history(store, ids[n])).result)
           ELSE <<>>)

\* C21: high_priority_tickets issues one history fetch per input id, in input
\* order, and returns the concatenation, in that order, of the entries with
\* priority "high" of each history; an id whose fetch errors or returns nothing
\* adds no entry, nothing is raised, and the remaining ids are still fetched.
C21_BulkHighPriority ==
  \A r \in Clients : req[r].intent = "bulk" =>
    LET q == req[r]
        f == Fetches(q)
    IN /\ q.pc # "raised"
       /\ Len(f) = Len(q.trail)
       /\ Len(f) <= Len(q.rows)
       /\ \A k \in DOMAIN f :
            /\ f[k].call.args.customer_id = q.rows[k]
            /\ k < Len(f) => f[k].out # "pending"
       /\ Done(r) =>
            /\ Len(f) = Len(q.rows)
            /\ q.acc = HighUpTo(q.db0, q.rows, f, Len(q.rows))
            /\ \A i \in DOMAIN q.acc : q.acc[i].priority = "high"

\* a call for three ids has returned tickets although the fetch for its first
\* id returned an error
C21_Witness ==
  \E r \in Clients :
    /\ req[r].intent = "bulk" /\ Done(r) /\ Len(req[r].rows) = 3
    /\ Fetches(req[r])[1].out = "error"
    /\ req[r].acc # <<>>

\* the actions of the events a request recorded itself, in order
OwnActions(q) == [i \in DOMAIN q.own |-> q.own[i].ev.action]

\* C22: handle_support issues a history fetch, preceded by a request_context
\* event, exactly when needs_context is true and a customer record is present;
\* with needs_context false it makes no Data Delegate call and appends no
\* event, urgent or not.
C22_ContextOnlyWhenAsked ==
  \A r \in Clients : req[r].intent = "handle_support" =>
    LET q == req[r]
        p == q.params
        asked == p.needs_context /\ p.customer # None
    IN /\ q.pc # "raised"
       /\ asked =>
            /\ Len(q.trail) = 1
            /\ q.trail[1].call = Data_history(p.customer[1].id, "Support").call
            /\ ~remote => OwnActions(q) = <<"request_context", "get_customer_history">>
       /\ ~asked => q.trail = <<>> /\ q.own = <<>>
       /\ ~p.needs_context => q.trail = <<>> /\ q.own = <<>>

\* a call with needs_context false, urgent true and a customer record has
\* returned: no call was made and no event appended
C22_Witness ==
  \E r \in Clients :
    /\ req[r].intent = "handle_support" /\ Done(r) /\ ~remote
    /\ ~req[r].params.needs_context /\ req[r].params.urgent
    /\ req[r].params.customer # None
    /\ req[r].trail = <<>> /\ req[r].own = <<>>

\* C23: in the multi-intent scenario the history is fetched once per request,
\* by the call issued together with the update, and no history fetch is issued
\* after the update and history calls have completed.
C23_Original ==
  \A r \in Clients : req[r].intent = "multi" =>
    /\ Len(Fetches(req[r])) <= 1
    /\ \A k \in DOMAIN Fetches(req[r]) : Fetches(req[r])[k].call = HistoryCall(req[r])
    /\ Done(r) => Len(Fetches(req[r])) = 1

\* the calls an escalation for customer_id issues, given the customer fetched
EscalationCalls(customer_id, customer) ==
  <<Data_fetch_customer(customer_id, "Router").call,
    Data_create_ticket(customer_id, "Billing refund request (duplicate charge)", "high",
                       "Support").call>>
  \o (IF customer = None THEN <<>> ELSE <<Data_history(customer[1].id, "Support").call>>)

\* the events of an in-process escalation, given the customer fetched
EscalationActions(customer) ==
  <<"get_customer", "scenario2.negotiate", "create_ticket">>
  \o (IF customer = None THEN <<>> ELSE <<"request_context", "get_customer_history">>)

\* C24: an escalation fetches the customer, records the Router's negotiation
\* event, creates the ticket with priority 'high' and the issue 'Billing refund
\* request (duplicate charge)', and then asks Support for an urgent reply with
\* context, in this order and each call returned before the next is issued; its
\* response is the support reply followed by the ticket.
C24_EscalationOrder ==
  \A r \in Clients : req[r].intent = "escalation" =>
    LET q == req[r]
        customer == IF q.info = None THEN None ELSE q.info[1].result
        issued == [i \in DOMAIN q.trail |-> q.trail[i].call]
    IN /\ q.trail # <<>>
       /\ IsPrefix(issued, EscalationCalls(q.customer_id, customer))
       /\ \A i \in DOMAIN q.trail : i < Len(q.trail) => q.trail[i].out # "pending"
       /\ (q.info = None) = (Len(q.trail) = 1)
       /\ \A i \in DOMAIN q.own :
            q.own[i].ev.action = "scenario2.negotiate" =>
              /\ q.own[i].ev = _log_step("Support", "scenario2.negotiate",
                                         [issue |-> "Billing refund"])
              /\ Len(q.trail) >= 2 /\ q.trail[1].out # "pending"
       /\ Len(q.trail) >= 2 => \E i \in DOMAIN q.own : q.own[i].ev.action = "scenario2.negotiate"
       /\ ~remote =>
            /\ IsPrefix(OwnActions(q), EscalationActions(customer))
            /\ Len(q.trail) = 1 => OwnActions(q) = <<"get_customer">>
            /\ Len(q.trail) = 2 => Len(q.own) = 3
            /\ Len(q.trail) = 3 => Len(q.own) = 5
       /\ Done(r) =>
            /\ issued = EscalationCalls(q.customer_id, customer)
            /\ q.response[1].kind = "escalation"
            /\ q.response[1].ticket = q.ticket
            /\ q.response[1].reply =
                 SupportReply(customer, "Billing refund", TRUE,
                              IF customer = None THEN NoContext ELSE ContextNote(q.ret[1]))
            /\ q.trail[2].out = "ok" => q.ticket # None

\* an escalation has returned after the customer fetch, the negotiation event,
\* the creation of the ticket and the context fetch of the urgent reply
C24_Witness ==
  \E r \in Clients :
    /\ req[r].intent = "escalation" /\ Done(r) /\ ~remote
    /\ Len(req[r].trail) = 3
    /\ OwnActions(req[r]) = EscalationActions(req[r].info[1].result)
    /\ req[r].response[1].reply.prefix = "URGENT: "
    /\ req[r].response[1].ticket # None

\* the events of a request that Data Delegate operations recorded, in order
DataEvents(evs) ==
  SelectSeq(evs, LAMBDA e : e.ev.receiver = "CustomerData" /\ e.ev.action # "request_context"
                              /\ e.ev.action \in {"get_customer", "list_customers",
                                                  "update_customer", "create_ticket",
                                                  "get_customer_history"})

\* C25: in process, each Data Delegate operation appends exactly one event,
\* with receiver 'CustomerData', the operation's action name and its arguments;
\* the event is in the trace while the tool call is still outstanding and
\* stays there when the call returns an error.
C25_OneEventBeforeTheCall ==
  \A r \in Clients : (~remote /\ req[r].pc # "idle") =>
    LET q == req[r]
        recorded == DataEvents(q.own)
    IN /\ Len(recorded) = Len(q.trail)
       /\ \A i \in DOMAIN q.trail :
            recorded[i].ev = A2AEvent(q.trail[i].call.sender, "CustomerData",
                                      q.trail[i].call.op, q.trail[i].call.args)
       /\ Latest(r) => IsPrefix(q.own, events) \/ \E k \in DOMAIN events :
                          SubSeq(events, k, Len(events)) = q.own
       /\ \A a \in {"get_customer", "list_customers", "update_customer", "create_ticket",
                    "get_customer_history"} :
            Cardinality({i \in DOMAIN q.own : q.own[i].ev.action = a})
              = Cardinality({i \in DOMAIN q.trail : q.trail[i].call.op = a})

\* an in-process call whose ticket creation returned an error holds the
\* create_ticket event in its trace, and another call is outstanding with its
\* event recorded
C25_Witness ==
  \E r \in Clients :
    /\ ~remote /\ Latest(r)
    /\ \E i \in DOMAIN req[r].trail :
         /\ req[r].trail[i].call.op = "create_ticket" /\ req[r].trail[i].out = "error"
         /\ DataEvents(events)[i].ev.action = "create_ticket"
    /\ req[r].trail[Len(req[r].trail)].out = "pending"
    /\ Len(DataEvents(events)) = Len(req[r].trail)

\* C26: every response of the data and support services' rpc endpoints carries
\* the id of the request and exactly one of result and error; a request with
\* another method than 'message/send' is answered with code -32601 and status
\* 400 and leaves the store and the service's log as they were.
C26_Original ==
  (rpc.pc # "idle" /\ rpc.peer \in {"data", "support"}) =>
    LET body == rpc.response.body IN
    /\ rpc.request.id.t # "absent" => body.id = rpc.request.id
    /\ (body.result.t = "absent") # (body.error.t = "absent")
    /\ rpc.request.method # "message/send" =>
         /\ rpc.response.status = 400
         /\ body.error.t = "object" /\ body.error.v.code = -32601
         /\ db = rpc.db0 /\ rpc.log = rpc.log0

\* the commands the data service and the support service recognize
Recognized(peer) ==
  IF peer = "data"
  THEN {"fetch_customer", "list_customers", "update_customer", "create_ticket", "history",
        "high_priority_tickets"}
  ELSE {"handle_support", "ensure_ticket", "summarize_history"}

\* a message/send request with a structured message was posted to a service
Structured ==
  /\ rpc.pc # "idle" /\ rpc.peer \in {"data", "support"}
  /\ rpc.request.method = "message/send"
  /\ rpc.request.params.t = "object" /\ "message" \in DOMAIN rpc.request.params.v
  /\ "text" \notin DOMAIN rpc.request.params.v.message

\* C27: a structured message whose command the service does not recognize is
\* answered with the JSON-RPC error 'Unknown command: <name>' and status 500
\* and runs no tool; a recognized command runs exactly one delegate operation:
\* a data command records the one event of its operation and returns that
\* tool's result on the store, a support command returns its operation's result.
C27_UnknownCommandRejected ==
  Structured =>
    LET m == rpc.request.params.v.message
        command == IF "command" \in DOMAIN m THEN m.command ELSE "None"
        resp == rpc.response
    IN IF command \notin Recognized(rpc.peer)
       THEN /\ resp.status = 500
            /\ resp.body.result.t = "absent"
            /\ resp.body.error = [t |-> "object",
                                  v |-> [code |-> -32000,
                                         message |-> "Unknown command: " \o command]]
            /\ db = rpc.db0 /\ rpc.log = <<>>
       ELSE /\ resp.status = 200 /\ resp.body.error.t = "absent"
            /\ command \in Recognized("data") \ {"high_priority_tickets"} =>
                 LET call == [op |-> DataTool(command),
                              args |-> [k \in DOMAIN m.args \ {"sender"} |-> m.args[k]],
                              sender |-> m.args.sender]
                     x == RunTool(rpc.db0, call.op, call.args)
                 IN /\ DataCommand(call) = m
                    /\ rpc.log = <<A2AEvent(call.sender, "CustomerData", call.op, call.args)>>
                    /\ MessageOf(resp) = Some(_serialize_tool_result(x.ret))
                    /\ db = x.db
            /\ command = "high_priority_tickets" =>
                 /\ db = rpc.db0
                 /\ MessageOf(resp)[1].result
                      = Some(HighTickets(rpc.db0, m.args.customer_ids))
                 /\ \A i \in DOMAIN rpc.log : rpc.log[i].action = "get_customer_history"
            /\ command = "ensure_ticket" =>
                 /\ Len(rpc.log) = 1 /\ rpc.log[1].action = "create_ticket"
                 /\ MessageOf(resp)[1].result
                      = RunTool(rpc.db0, "create_ticket", m.args).ret.result
            /\ command = "summarize_history" =>
                 /\ db = rpc.db0
                 /\ Len(rpc.log) = 1 /\ rpc.log[1].action = "get_customer_history"
            /\ command = "handle_support" =>
                 /\ db = rpc.db0
                 /\ MessageOf(resp)[1].result[1].issue = m.args.issue

\* the data service has answered the command 'nope' with status 500 and the
\* error 'Unknown command: nope', the store untouched
C27_Witness ==
  /\ Structured /\ rpc.pc = "done" /\ rpc.peer = "data"
  /\ rpc.request.params.v.message = [command |-> "nope", args |-> [sender |-> "Router"]]
  /\ rpc.response.status = 500
  /\ rpc.response.body.error.v.message = "Unknown command: nope"
  /\ db = rpc.db0

\* the tickets of the histories of rows[1..n] on a store, none for a row whose
\* fetch (the k-th of `fetches`) returned an error
RECURSIVE FetchedUpTo(_, _, _, _)
FetchedUpTo(store, rows, fetches, n) ==
  IF n = 0 THEN <<>>
  ELSE FetchedUpTo(store, rows, fetches, n - 1)
       \o (IF fetches[n].out = "ok"
           THEN OrEmpty(ToolResult(get_customer_history(store, rows[n].id)).result)
           ELSE <<>>)

\* C28: the active-customers report lists the active customers with limit 50,
\* fetches the history of each listed customer once, in listing order, and
\* answers 'No open tickets for active customers.' exactly when no fetched
\* ticket has another status than 'resolved'; otherwise its lines are the
\* non-resolved tickets, one line each; a failed listing or fetch counts as empty.
C28_ActiveOpenReport ==
  \A r \in Clients : req[r].intent = "active_open" =>
    LET q == req[r]
        f == Fetches(q)
        listed == IF q.trail[1].out = "ok"
                  THEN OrEmpty(ToolResult(list_customers(q.db0, Some("active"), 50)).result)
                  ELSE <<>>
    IN /\ q.pc # "raised"
       /\ q.trail # <<>>
       /\ q.trail[1].call = [op |-> "list_customers",
                             args |-> [status |-> Some("active"), limit |-> 50],
                             sender |-> "Router"]
       /\ Len(q.trail) = 1 + Len(f)
       /\ q.pc = "active.list" => f = <<>>
       /\ q.pc # "active.list" =>
            /\ q.rows = listed
            /\ Len(f) <= Len(listed)
            /\ \A k \in DOMAIN f :
                 /\ f[k].call = Data_history(listed[k].id, "Router").call
                 /\ k < Len(f) => f[k].out # "pending"
            /\ Done(r) =>
                 LET fetched == FetchedUpTo(q.db0, listed, f, Len(listed))
                     open == SelectSeq(fetched, LAMBDA t : t.status # "resolved")
                 IN /\ Len(f) = Len(listed)
                    /\ (q.response[1] = NoOpenTickets)
                         = (\A i \in DOMAIN fetched : fetched[i].status = "resolved")
                    /\ q.response[1] # NoOpenTickets =>
                         /\ Len(q.response[1].lines) = Len(open)
                         /\ \A i \in DOMAIN open :
                              /\ q.response[1].lines[i].ticket_id = open[i].id
                              /\ q.response[1].lines[i].customer_id = open[i].customer_id
                              /\ q.response[1].lines[i].status # "resolved"

\* a report has returned with lines although one of the histories it fetched
\* held a resolved ticket and another fetch failed
C28_Witness ==
  \E r \in Clients :
    /\ req[r].intent = "active_open" /\ Done(r)
    /\ req[r].response[1] # NoOpenTickets
    /\ \E k \in DOMAIN Fetches(req[r]) : Fetches(req[r])[k].out = "error"
    /\ \E i \in DOMAIN req[r].db0.tickets :
         /\ req[r].db0.tickets[i].status = "resolved"
         /\ \E k \in DOMAIN Fetches(req[r]) :
              /\ Fetches(req[r])[k].out = "ok"
              /\ Fetches(req[r])[k].call.args.customer_id = req[r].db0.tickets[i].customer_id

\* the calls of a request that the Support Delegate issued
SupportCalls(q) == SelectSeq(q.trail, LAMBDA t : t.call.sender = "Support")

\* C29: summarize_history fetches the customer's history once; it returns
\* 'No ticket history yet.' exactly when that fetch carries an error or an
\* empty result, and otherwise one entry per ticket, in the order returned.
C29_SummarizeHistory ==
  \A r \in Clients :
    (req[r].intent = "multi" /\ req[r].pc \in {"multi.summary", "done"}) =>
      LET q == req[r]
          s == q.response[1].summary
      IN /\ Len(SupportCalls(q)) = 1
         /\ SupportCalls(q)[1].call = Data_history(q.customer_id, "Support").call
         /\ SupportCalls(q)[1] = q.trail[Len(q.trail)]
         /\ Done(r) =>
              LET history == q.ret[1]
                  empty == history.result = None \/ Len(history.result[1]) = 0
              IN /\ SupportCalls(q)[1].out = Outcome(history)
                 /\ (s.text = "No ticket history yet.") = (history.error # None \/ empty)
                 /\ (history.error # None \/ empty) => s.items = <<>>
                 /\ ~(history.error # None \/ empty) =>
                      /\ Len(s.items) = Len(history.result[1])
                      /\ \A i \in DOMAIN s.items :
                           s.items[i] = [created_at |-> history.result[1][i].created_at,
                                         issue |-> history.result[1][i].issue,
                                         status |-> history.result[1][i].status,
                                         priority |-> history.result[1][i].priority]

\* a summary of an empty history that was fetched without error has been
\* returned as 'No ticket history yet.'
C29_Witness ==
  \E r \in Clients :
    /\ req[r].intent = "multi" /\ Done(r)
    /\ req[r].ret[1].error = None /\ req[r].ret[1].result = Some(<<>>)
    /\ req[r].response[1].summary.text = "No ticket history yet."

\* C30: the customer id handle uses is the number of the first
\* 'id|customer <digits>' match of the text whenever there is one, and the
\* default 1 only when the text has no match.
C30_Original ==
  cls.state = "classified" =>
    LET match == _parse_customer_id(cls.text) IN
    /\ match # None => cls.customer_id = match[1]
    /\ match = None => cls.customer_id = 1

\* C31: wait_until_ready sleeps only between two consecutive descriptor
\* fetches: a call that has ended after k fetches has slept k-1 times, and a
\* call that has made its last fetch does not sleep before it raises.
C31_Original ==
  /\ (WaitOver /\ wr.fetches >= 1) => wr.sleeps = wr.fetches - 1
  /\ wr.pc = "sleep" => wr.fetches < wr.attempts

\* C32: wait_until_ready called with attempts <= 0 returns normally without a
\* descriptor fetch or a sleep, nothing raised.
C32_NoAttemptReturns ==
  (wr.pc # "idle" /\ wr.attempts <= 0) =>
    /\ wr.pc = "returned"
    /\ wr.fetches = 0 /\ wr.sleeps = 0
    /\ wr.raised = None /\ wr.last_error = None

\* a call with a negative number of attempts has returned, no fetch made
C32_Witness == wr.pc = "returned" /\ wr.attempts < 0 /\ wr.fetches = 0

\* C33: the premium-id list of the high-priority report is always empty or
\* exactly <<12345>>: the customers it selects from were listed with status
\* "active", so the status = "vip" alternative selects nobody.
C33_PremiumIds ==
  \A r \in Clients : req[r].intent = "hp_report" =>
    /\ (req[r].pc = "hp.list" /\ req[r].ret # None) =>
         LET customers == OrEmpty(req[r].ret[1].result) IN
         /\ \A i \in DOMAIN customers : customers[i].status = "active"
         /\ SelectSeq(customers, LAMBDA c : c.id # VipId /\ c.status = "vip") = <<>>
    /\ req[r].pc \in {"hp.hist", "done"} => req[r].rows \in {<<>>, <<VipId>>}

\* a report over a store that holds a customer of status "vip" and an active
\* customer 12345: only 12345 was selected
C33_Witness ==
  \E r \in Clients :
    /\ req[r].intent = "hp_report" /\ Done(r) /\ req[r].rows = <<VipId>>
    /\ \E i \in DOMAIN db.customers : db.customers[i].status = "vip"

\* C34: in the escalation scenario, when the customer exists and the ticket was
\* created, the context history is fetched after the creation, the fetched
\* history contains the new ticket, and the context note of the reply is never
\* " No prior tickets.".
C34_Original ==
  \A r \in Clients :
    LET q == req[r] IN
    (/\ q.intent = "escalation" /\ q.pc \in {"esc.ctx", "done"}
     /\ q.info # None /\ q.info[1].result # None /\ q.ticket # None) =>
      /\ Len(q.trail) = 3
      /\ q.trail[2].call.op = "create_ticket" /\ q.trail[2].out = "ok"
      /\ q.trail[3].call.op = "get_customer_history"
      /\ (q.pc = "esc.ctx" /\ q.callState = "done") =>
           /\ q.ret[1].result # None
           /\ \E i \in DOMAIN q.ret[1].result[1] : q.ret[1].result[1][i] = q.ticket[1]
      /\ q.pc = "done" => q.response[1].reply.context_note.note = " Context: "

\* the delegate entries of a multi-intent request that asked for an update
MultiDelegateOrder(q) ==
  << Format(Data_update_customer(q.customer_id, [email |-> q.new_email[1]], "Router").event),
     Format(Data_history(q.customer_id, "Router").event),
     Format(Data_history(q.customer_id, "Support").event) >>

\* C35: in the multi-intent scenario with in-process delegates the delegate
\* events of the returned log are in the same order in every interleaving of
\* the two tasks: the update_customer event, the get_customer_history event of
\* the concurrent history call, then Support's get_customer_history event,
\* whichever of the update and the history call completed first.
C35_DelegateOrder ==
  \A r \in Clients :
    LET q == req[r] IN
    (~remote /\ q.intent = "multi" /\ q.new_email # None) =>
      /\ IsPrefix(Dump(DataEvents(q.own)), MultiDelegateOrder(q))
      /\ Done(r) =>
           /\ q.firstDone \in {"update", "history"}
           /\ DelegateEntries(q.log) = MultiDelegateOrder(q)

\* a returned in-process multi-intent request whose history call completed
\* before its update call
C35_Witness ==
  \E r \in Clients :
    /\ ~remote /\ Done(r) /\ req[r].intent = "multi" /\ req[r].new_email # None
    /\ req[r].firstDone = "history"
    /\ Len(DelegateEntries(req[r].log)) = 3

\* the same, the update call having completed first
C35_WitnessUpdateFirst ==
  \E r \in Clients :
    /\ ~remote /\ Done(r) /\ req[r].intent = "multi" /\ req[r].new_email # None
    /\ req[r].firstDone = "update"

\* C36: a text holding both 'cancel my subscription' and 'billing' runs the
\* cancel-with-billing scenario, whatever other rule it matches ('refund' for
\* one); the scenario issues one call, the history of the customer, never a
\* get_customer, and its Support reply is urgent, has no customer record and no
\* context note (no request_context event, no history call by Support).
C36_CancelFirst ==
  \A r \in Clients :
    LET q == req[r]
        n == Normalize(q.query)
    IN (q.pc # "idle" /\ Has(n, "cancel my subscription") /\ Has(n, "billing")) =>
         /\ q.intent = "cancel"
         /\ Len(q.trail) = 1
         /\ q.trail[1].call = Data_history(q.customer_id, "Router").call
         /\ \A i \in DOMAIN q.own :
              q.own[i].ev.action \notin {"get_customer", "request_context"}
         /\ Done(r) =>
              /\ q.trail[1].out # "pending"
              /\ q.response[1].kind = "cancel"
              /\ q.response[1].reply =
                   SupportReply(None, "Cancel subscription with billing issues", TRUE,
                                NoContext)
              /\ q.response[1].reply.prefix = "URGENT: "
              /\ q.response[1].reply.label = None

\* a returned request whose text matched the refund rule as well
C36_Witness ==
  \E r \in Clients :
    /\ Done(r) /\ req[r].intent = "cancel"
    /\ Has(Normalize(req[r].query), "refund")
    /\ req[r].customer_id = 5

\* C37: the multi-intent response shows the email "unchanged" exactly when no
\* email was parsed from the text or the update call returned no record; with
\* no email parsed no update call is issued and no update event recorded; a
\* failed update shows the same email value as a request without an update.
C37_EmailUnchanged ==
  \A r \in Clients :
    LET q == req[r] IN
    q.intent = "multi" =>
      /\ q.new_email = None =>
           /\ q.upd = "none" /\ q.updRet = None
           /\ \A i \in DOMAIN q.trail : q.trail[i].call.op # "update_customer"
           /\ \A i \in DOMAIN q.own : q.own[i].ev.action # "update_customer"
      /\ (q.new_email # None /\ q.pc \in {"multi.summary", "done"}) =>
           /\ q.updRet # None
           /\ Cardinality({i \in DOMAIN q.trail : q.trail[i].call.op = "update_customer"}) = 1
      /\ Done(r) =>
           /\ (q.response[1].email_val = "unchanged")
                = (q.new_email = None \/ q.updRet[1].result = None)
           /\ (q.new_email # None /\ q.updRet[1].result # None) =>
                q.response[1].email_val = q.updRet[1].result[1].email

\* a returned request whose update named a customer the store does not hold
C37_Witness ==
  \E r \in Clients :
    /\ Done(r) /\ req[r].intent = "multi" /\ req[r].new_email # None
    /\ req[r].updRet[1].result = None /\ req[r].updRet[1].error # None
    /\ req[r].customer_id \notin DOMAIN db.customers
    /\ req[r].response[1].email_val = "unchanged"

\* C38: the data service clears its one log at the start of every message, so
\* the log holds the events of the message received last and of no other; a
\* message received while another is in flight removes that one's event, and
\* the log after both have completed does not hold the events of both.
C38_ServiceLogOfLastMessage ==
  /\ \A i \in DOMAIN events : events[i].by = calls
  /\ \A r \in Clients :
       LET q == req[r] IN
       /\ (q.callNo = calls /\ q.pc # "idle") => events = q.own
       /\ (q.pc # "idle" /\ q.callNo < calls) =>
            \A i \in DOMAIN events : events[i].by # q.callNo
       /\ (q.pc = "svc.tool" /\ q.cleared) =>
            /\ q.own # <<>>
            /\ \A i \in DOMAIN events : events[i].ev # q.own[1].ev \/ events[i].by # q.callNo
  /\ \A r, c \in Clients :
       (r # c /\ req[r].own # <<>> /\ req[c].own # <<>>) =>
         ~(/\ \E i \in DOMAIN events : events[i].by = req[r].callNo
           /\ \E i \in DOMAIN events : events[i].by = req[c].callNo)

\* the update and the history command of one customer were in flight together
\* and have both completed: the update's event was removed by the clear of the
\* history message, whose event is all the log holds
C38_Witness ==
  \E r, c \in Clients :
    /\ Done(r) /\ Done(c)
    /\ "command" \in DOMAIN req[c].params /\ "command" \in DOMAIN req[r].params
    /\ req[c].params.command = "update_customer" /\ req[r].params.command = "history"
    /\ req[c].params.args.customer_id = req[r].params.args.customer_id
    /\ req[c].cleared /\ req[c].own # <<>> /\ req[c].response[1].status = 200
    /\ req[r].response[1].status = 200
    /\ Dump(events) = Dump(req[r].own)
    /\ \A i \in DOMAIN events : events[i].ev.action # "update_customer"

====
